---------------------------- MODULE Spec2Model ----------------------------
(***************************************************************************)
(* DietTrackerPro: the in-memory access layer (server/storage.ts,          *)
(* MemStorage) and the REST handlers that sit on it (server/routes.ts).    *)
(*                                                                         *)
(* Conventions.                                                            *)
(*   - A JavaScript object is a function from field names to values; a     *)
(*     field that is absent from the object (undefined) is absent from the *)
(*     function's domain.                                                  *)
(*   - `T | undefined` is a sequence of length 0 (undefined) or 1.         *)
(*   - A Map is the sequence of its entries in insertion order.            *)
(*   - A Date is the integer number of clock ticks it holds; an Invalid    *)
(*     Date (new Date(undefined)) has getTime() = NaN, written <<>>.       *)
(*   - A template literal is the sequence of its pieces, so that "the      *)
(*     description contains the name" is a statement about the pieces.     *)
(*     Turkish letters of the literals are written without diacritics.     *)
(***************************************************************************)
EXTENDS Integers, Sequences, FiniteSets, TLC

(***************************************************************************)
(* Bounds of the model.                                                    *)
(***************************************************************************)
MaxUsers == 2     \* users registered over HTTP
MaxCalls == 3     \* calls that change the store (registrations aside)
MaxTime == 1      \* clock ticks

VARIABLES
  storage,   \* the MemStorage instance exported by storage.ts
  now,       \* the wall clock read by new Date()
  tokens,    \* the bearer tokens signed so far, each <<id, username>>
  pending,   \* register requests suspended at the awaited bcrypt.hash
  issued,    \* per entity type, the identifiers create has assigned, in order
  calls,     \* how many calls have changed the store so far
  authProvider,  \* the browser's AuthProvider, localStorage and open calls
  since      \* a date handed to getTimeSince, and the text shown for it

serverVars == <<storage, now, tokens, pending, issued, calls>>
clientVars == <<authProvider, since>>
vars == <<storage, now, tokens, pending, issued, calls, authProvider, since>>

(***************************************************************************)
(* Language-level helpers.                                                 *)
(***************************************************************************)
Undefined == <<>>

\* { ...a, ...b }
Spread(a, b) ==
  [k \in (DOMAIN a) \cup (DOMAIN b) |-> IF k \in DOMAIN b THEN b[k] ELSE a[k]]

\* the object restricted to the keys a zod object schema keeps
Pick(obj, keys) == [k \in (DOMAIN obj) \cap keys |-> obj[k]]

Min(a, b) == IF a < b THEN a ELSE b

Range(s) == {s[i] : i \in DOMAIN s}

\* Map.prototype.has / get / set / delete / values, on a sequence of entries
MapHas(m, key) == \E i \in DOMAIN m : m[i].k = key

MapGet(m, key) ==
  IF MapHas(m, key)
    THEN <<m[CHOOSE i \in DOMAIN m : m[i].k = key].v>>
    ELSE Undefined

MapSet(m, key, val) ==
  IF MapHas(m, key)
    THEN [i \in DOMAIN m |-> IF m[i].k = key THEN [k |-> key, v |-> val] ELSE m[i]]
    ELSE Append(m, [k |-> key, v |-> val])

MapDelete(m, key) == SelectSeq(m, LAMBDA e : e.k # key)

MapValues(m) == [i \in DOMAIN m |-> m[i].v]

MapKeys(m) == {m[i].k : i \in DOMAIN m}

\* Array.prototype.slice(0, n) for an integer n >= 0
Slice0(s, n) == SubSeq(s, 1, Min(n, Len(s)))

(***************************************************************************)
(* Array.prototype.sort with a comparator that subtracts two getTime()     *)
(* values.  keys[i] is the getTime() of element i: <<t>> or <<>> for NaN.  *)
(* A comparator result of NaN counts as +0 (ECMAScript SortCompare).       *)
(***************************************************************************)
\* (a, b) => a - b
CmpAsc(ka, kb) == IF ka = <<>> \/ kb = <<>> THEN 0 ELSE ka[1] - kb[1]

\* (a, b) => b - a
CmpDesc(ka, kb) == CmpAsc(kb, ka)

\* the permutations of 1..n, as sequences
Perms(n) ==
  {p \in [1..n -> 1..n] : \A i, j \in 1..n : i # j => p[i] # p[j]}

\* a comparator is consistent when "compares equal" is transitive (the other
\* requirements hold of every difference of numbers)
Consistent(keys) ==
  \A i, j, l \in DOMAIN keys :
    (CmpAsc(keys[i], keys[j]) = 0 /\ CmpAsc(keys[j], keys[l]) = 0)
      => CmpAsc(keys[i], keys[l]) = 0

\* the stable order: by the comparator, ties in the original order
StablePerm(keys, desc) ==
  CHOOSE p \in Perms(Len(keys)) :
    \A i, j \in DOMAIN keys :
      i < j =>
        LET c == IF desc THEN CmpDesc(keys[p[i]], keys[p[j]])
                         ELSE CmpAsc(keys[p[i]], keys[p[j]])
        IN  c < 0 \/ (c = 0 /\ p[i] < p[j])

\* The results sort may give.  With a consistent comparator the result is the
\* stable order; otherwise the order is implementation-defined (ECMA-262,
\* Array.prototype.sort), and any arrangement of the elements may come out.
SortOutcomes(s, keys, desc) ==
  IF Consistent(keys)
    THEN {LET p == StablePerm(keys, desc) IN [i \in DOMAIN s |-> s[p[i]]]}
    ELSE {[i \in DOMAIN s |-> s[p[i]]] : p \in Perms(Len(s))}

\* new Date(x).getTime(): x a Date, or absent
GetTime(obj, fld) == IF fld \in DOMAIN obj THEN <<obj[fld]>> ELSE <<>>

TimeKeys(s, fld) == [i \in DOMAIN s |-> GetTime(s[i], fld)]


(***************************************************************************)
(* server/storage.ts: MemStorage.  Every method is a function of the       *)
(* instance `st`; a method that writes returns the new instance in         *)
(* `store` and its return value in `result`.  `t` is the clock value that  *)
(* new Date() reads during the call.                                       *)
(***************************************************************************)
\* bcrypt.hash(password, 10): a string that is not the password
BcryptHash(password) == "$2a$10$" \o password

\* bcrypt.compare(password, hash)
BcryptCompare(password, hash) == hash = BcryptHash(password)

\* createBlogArticle
createBlogArticle(st, articleData, t) ==
  LET id == st.blogArticleIdCounter
      article == Spread(articleData, [id |-> id, publishedAt |-> t])
  IN  [store |-> [st EXCEPT !.blogArticleIdCounter = id + 1,
                            !.blogArticles = MapSet(@, id, article)],
       result |-> article]

InitialArticles ==
  << [title |-> "Kilo Vermede Saglikli Beslenmenin Onemi",
      summary |-> "s1", content |-> "Detayli icerik burada yer alacak",
      author |-> "Prof. Dr. Ayse Yilmaz", imageUrl |-> "u1", readTime |-> 8],
     [title |-> "Duzenli Egzersizin Metabolizma Uzerindeki Etkileri",
      summary |-> "s2", content |-> "Detayli icerik burada yer alacak",
      author |-> "Uzm. Dyt. Mehmet Demir", imageUrl |-> "u2", readTime |-> 6],
     [title |-> "Mevsimsel Besinlerin Saglik Uzerindeki Olumlu Etkileri",
      summary |-> "s3", content |-> "Detayli icerik burada yer alacak",
      author |-> "Dyt. Zeynep Kaya", imageUrl |-> "u3", readTime |-> 5] >>

RECURSIVE addInitialBlogArticles(_, _, _)
addInitialBlogArticles(st, articles, t) ==
  IF articles = <<>> THEN st
  ELSE addInitialBlogArticles(createBlogArticle(st, Head(articles), t).store,
                              Tail(articles), t)

\* constructor
MemStorageNew(t) ==
  addInitialBlogArticles(
    [users |-> <<>>, clients |-> <<>>, measurements |-> <<>>,
     dietPlans |-> <<>>, appointments |-> <<>>, activities |-> <<>>,
     blogArticles |-> <<>>,
     userIdCounter |-> 1, clientIdCounter |-> 1, measurementIdCounter |-> 1,
     dietPlanIdCounter |-> 1, appointmentIdCounter |-> 1,
     activityIdCounter |-> 1, blogArticleIdCounter |-> 1],
    InitialArticles, t)

\* ---- users
getUser(st, id) == MapGet(st.users, id)

getUserByUsername(st, username) ==
  LET hits == SelectSeq(MapValues(st.users), LAMBDA u : u.username = username)
  IN  IF hits = <<>> THEN Undefined ELSE <<Head(hits)>>

\* createUser, the part after the awaited bcrypt.hash has resolved
createUser(st, userData, t) ==
  LET hashedPassword == BcryptHash(userData.password)
      id == st.userIdCounter
      user == Spread(userData,
                     [id |-> id, password |-> hashedPassword, createdAt |-> t])
  IN  [store |-> [st EXCEPT !.userIdCounter = id + 1,
                            !.users = MapSet(@, id, user)],
       result |-> user]

\* ---- activities
createActivity(st, activityData, t) ==
  LET id == st.activityIdCounter
      activity == Spread(activityData, [id |-> id, createdAt |-> t])
  IN  [store |-> [st EXCEPT !.activityIdCounter = id + 1,
                            !.activities = MapSet(@, id, activity)],
       result |-> activity]

\* An optional number: undefined, NaN or a number.
NoNumber == [kind |-> "undefined"]
NaN == [kind |-> "NaN"]
Num(n) == [kind |-> "number", n |-> n]

\* (a variant that forgets the truthiness test and the sign)
LimitApplies_anyNumber(limit) == limit.kind = "number"

\* if (limit && limit > 0)
LimitApplies(limit) ==
  /\ limit.kind = "number"
  /\ limit.n # 0
  /\ limit.n > 0

\* the set of results the call may return (see SortOutcomes)
getActivitiesForUser(st, userId, limit) ==
  LET results == SelectSeq(MapValues(st.activities),
                           LAMBDA a : a.userId = userId)
  IN  {IF LimitApplies(limit) THEN Slice0(sorted, limit.n) ELSE sorted :
         sorted \in SortOutcomes(results, TimeKeys(results, "createdAt"), TRUE)}

\* ---- blog
getBlogArticles(st, limit) ==
  LET articles == MapValues(st.blogArticles)
  IN  {IF LimitApplies(limit) THEN Slice0(sorted, limit.n) ELSE sorted :
         sorted \in SortOutcomes(articles, TimeKeys(articles, "publishedAt"), TRUE)}

getBlogArticle(st, id) == MapGet(st.blogArticles, id)

\* ---- clients
getClientsForUser(st, userId) ==
  SelectSeq(MapValues(st.clients), LAMBDA c : c.userId = userId)

getClient(st, id) == MapGet(st.clients, id)

\* (a variant that numbers a new client by the size of the map)
createClient_reuse(st, clientData, t) ==
  LET id == Len(st.clients) + 1
      client == Spread(clientData, [id |-> id, createdAt |-> t])
      st1 == [st EXCEPT !.clientIdCounter = id + 1,
                        !.clients = MapSet(@, id, client)]
  IN  [store |-> createActivity(st1,
                   [userId |-> clientData.userId, clientId |-> id,
                    type |-> "client",
                    description |-> <<"Yeni danisan eklendi: ", clientData.fullName>>],
                   t).store,
       result |-> client]

createClient(st, clientData, t) ==
  LET id == st.clientIdCounter
      client == Spread(clientData, [id |-> id, createdAt |-> t])
      st1 == [st EXCEPT !.clientIdCounter = id + 1,
                        !.clients = MapSet(@, id, client)]
  IN  [store |-> createActivity(st1,
                   [userId |-> clientData.userId, clientId |-> id,
                    type |-> "client",
                    description |-> <<"Yeni danisan eklendi: ", clientData.fullName>>],
                   t).store,
       result |-> client]

\* (a variant that records an activity for the update)
updateClient_recorded(st, id, clientData) ==
  LET client == MapGet(st.clients, id)
  IN  IF client = Undefined THEN [store |-> st, result |-> Undefined]
      ELSE LET updatedClient == Spread(client[1], clientData)
               st1 == [st EXCEPT !.clients = MapSet(@, id, updatedClient)]
           IN  [store |-> createActivity(st1,
                            [userId |-> updatedClient.userId,
                             clientId |-> id,
                             type |-> "client",
                             description |-> <<"Danisan guncellendi: ",
                                               updatedClient.fullName>>],
                            0).store,
                result |-> <<updatedClient>>]

updateClient(st, id, clientData) ==
  LET client == MapGet(st.clients, id)
  IN  IF client = Undefined THEN [store |-> st, result |-> Undefined]
      ELSE LET updatedClient == Spread(client[1], clientData)
           IN  [store |-> [st EXCEPT !.clients = MapSet(@, id, updatedClient)],
                result |-> <<updatedClient>>]

\* (a variant that takes the measurements of the client along)
deleteClient_cascade(st, id) ==
  [store |-> [st EXCEPT !.clients = MapDelete(@, id),
                        !.measurements =
                          SelectSeq(@, LAMBDA e : e.v.clientId # id)],
   result |-> MapHas(st.clients, id)]

deleteClient(st, id) ==
  [store |-> [st EXCEPT !.clients = MapDelete(@, id)],
   result |-> MapHas(st.clients, id)]

\* ---- measurements
\* the set of results the call may return (see SortOutcomes)
getMeasurementsForClient(st, clientId) ==
  LET results == SelectSeq(MapValues(st.measurements),
                           LAMBDA m : m.clientId = clientId)
  IN  SortOutcomes(results, TimeKeys(results, "date"), TRUE)

getMeasurement(st, id) == MapGet(st.measurements, id)

createMeasurement(st, measurementData, t) ==
  LET id == st.measurementIdCounter
      measurement == Spread(measurementData, [id |-> id])
      st1 == [st EXCEPT !.measurementIdCounter = id + 1,
                        !.measurements = MapSet(@, id, measurement)]
      client == MapGet(st1.clients, measurementData.clientId)
  IN  [store |-> IF client # Undefined
                   THEN createActivity(st1,
                          [userId |-> client[1].userId,
                           clientId |-> measurementData.clientId,
                           type |-> "measurement",
                           description |-> <<"Yeni olcum kaydedildi: ",
                                             client[1].fullName, " icin">>],
                          t).store
                   ELSE st1,
       result |-> measurement]

\* (a variant that stores the patch in place of the merged measurement)
updateMeasurement_replace(st, id, measurementData) ==
  LET measurement == MapGet(st.measurements, id)
  IN  IF measurement = Undefined THEN [store |-> st, result |-> Undefined]
      ELSE LET updatedMeasurement == Spread([id |-> id], measurementData)
           IN  [store |-> [st EXCEPT !.measurements =
                                       MapSet(@, id, updatedMeasurement)],
                result |-> <<updatedMeasurement>>]

updateMeasurement(st, id, measurementData) ==
  LET measurement == MapGet(st.measurements, id)
  IN  IF measurement = Undefined THEN [store |-> st, result |-> Undefined]
      ELSE LET updatedMeasurement == Spread(measurement[1], measurementData)
           IN  [store |-> [st EXCEPT !.measurements =
                                       MapSet(@, id, updatedMeasurement)],
                result |-> <<updatedMeasurement>>]

deleteMeasurement(st, id) ==
  [store |-> [st EXCEPT !.measurements = MapDelete(@, id)],
   result |-> MapHas(st.measurements, id)]

\* ---- diet plans
getDietPlansForUser(st, userId) ==
  SelectSeq(MapValues(st.dietPlans), LAMBDA d : d.userId = userId)

\* the set of results the call may return (see SortOutcomes)
getDietPlansForClient(st, clientId) ==
  LET results == SelectSeq(MapValues(st.dietPlans),
                           LAMBDA d : d.clientId = clientId)
  IN  SortOutcomes(results, TimeKeys(results, "createdAt"), TRUE)

getDietPlan(st, id) == MapGet(st.dietPlans, id)

\* (a variant that never resolves the client)
ClientNameOf_placeholder(client) == "Bilinmeyen Danisan"

\* client ? client.fullName : 'Bilinmeyen Danisan'
ClientNameOf(client) ==
  IF client # Undefined THEN client[1].fullName ELSE "Bilinmeyen Danisan"

createDietPlan(st, dietPlanData, t) ==
  LET id == st.dietPlanIdCounter
      dietPlan == Spread(dietPlanData, [id |-> id, createdAt |-> t])
      st1 == [st EXCEPT !.dietPlanIdCounter = id + 1,
                        !.dietPlans = MapSet(@, id, dietPlan)]
      client == MapGet(st1.clients, dietPlanData.clientId)
      clientName == ClientNameOf(client)
  IN  [store |-> createActivity(st1,
                   [userId |-> dietPlanData.userId,
                    clientId |-> dietPlanData.clientId,
                    type |-> "diet_plan",
                    description |-> <<"Yeni diyet plani olusturuldu: ",
                                      clientName, " icin ", dietPlanData.name>>],
                   t).store,
       result |-> dietPlan]

\* (a variant that creates the diet plan when the id is not in the map)
updateDietPlan_upsert(st, id, dietPlanData) ==
  LET dietPlan == MapGet(st.dietPlans, id)
      updatedDietPlan == IF dietPlan = Undefined
                           THEN Spread([id |-> id], dietPlanData)
                           ELSE Spread(dietPlan[1], dietPlanData)
  IN  [store |-> [st EXCEPT !.dietPlans = MapSet(@, id, updatedDietPlan)],
       result |-> <<updatedDietPlan>>]

updateDietPlan(st, id, dietPlanData) ==
  LET dietPlan == MapGet(st.dietPlans, id)
  IN  IF dietPlan = Undefined THEN [store |-> st, result |-> Undefined]
      ELSE LET updatedDietPlan == Spread(dietPlan[1], dietPlanData)
           IN  [store |-> [st EXCEPT !.dietPlans = MapSet(@, id, updatedDietPlan)],
                result |-> <<updatedDietPlan>>]

deleteDietPlan(st, id) ==
  [store |-> [st EXCEPT !.dietPlans = MapDelete(@, id)],
   result |-> MapHas(st.dietPlans, id)]

\* ---- appointments
\* (a variant that returns the appointments as the map holds them)
getAppointmentsForUser_unsorted(st, userId) ==
  {SelectSeq(MapValues(st.appointments), LAMBDA a : a.userId = userId)}

\* the sets of results the calls may return (see SortOutcomes)
getAppointmentsForUser(st, userId) ==
  LET results == SelectSeq(MapValues(st.appointments),
                           LAMBDA a : a.userId = userId)
  IN  SortOutcomes(results, TimeKeys(results, "date"), FALSE)

getAppointmentsForClient(st, clientId) ==
  LET results == SelectSeq(MapValues(st.appointments),
                           LAMBDA a : a.clientId = clientId)
  IN  SortOutcomes(results, TimeKeys(results, "date"), FALSE)

getAppointment(st, id) == MapGet(st.appointments, id)

\* new Date(date).toLocaleDateString('tr-TR'): the day of the date, as text
LocaleDateString(date) == "tr-TR " \o ToString(date)

createAppointment(st, appointmentData, t) ==
  LET id == st.appointmentIdCounter
      appointment == Spread(appointmentData, [id |-> id, createdAt |-> t])
      st1 == [st EXCEPT !.appointmentIdCounter = id + 1,
                        !.appointments = MapSet(@, id, appointment)]
      client == MapGet(st1.clients, appointmentData.clientId)
      clientName == ClientNameOf(client)
  IN  [store |-> createActivity(st1,
                   [userId |-> appointmentData.userId,
                    clientId |-> appointmentData.clientId,
                    type |-> "appointment",
                    description |-> <<"Yeni randevu olusturuldu: ", clientName,
                                      " ile ",
                                      LocaleDateString(appointmentData.date)>>],
                   t).store,
       result |-> appointment]

updateAppointment(st, id, appointmentData) ==
  LET appointment == MapGet(st.appointments, id)
  IN  IF appointment = Undefined THEN [store |-> st, result |-> Undefined]
      ELSE LET updatedAppointment == Spread(appointment[1], appointmentData)
           IN  [store |-> [st EXCEPT !.appointments =
                                       MapSet(@, id, updatedAppointment)],
                result |-> <<updatedAppointment>>]

deleteAppointment(st, id) ==
  [store |-> [st EXCEPT !.appointments = MapDelete(@, id)],
   result |-> MapHas(st.appointments, id)]


(***************************************************************************)
(* The values callers pass.                                                *)
(***************************************************************************)
UserIds == 1..MaxUsers
ClientIds == 1..2
EntityIds == 1..MaxCalls
ArticleIds == 1..(Len(InitialArticles) + 1)
Times == 0..MaxTime
FullNames == {"Ayse Kaya", "Can Demir"}
PlanNames == {"Kilo Verme Diyeti"}

\* InsertUser
InsertUsers ==
  {[username |-> u, password |-> "parola1", email |-> "e", fullName |-> "Dyt"] :
     u \in {"ayse", "can"}}

\* InsertClient
InsertClients ==
  {[userId |-> 1, fullName |-> "Ayse Kaya", email |-> "e", phone |-> "p",
    gender |-> "f"],
   [userId |-> 2, fullName |-> "Can Demir", email |-> "e", phone |-> "p",
    gender |-> "m"]}

\* InsertMeasurement: date is optional
InsertMeasurements ==
  {[clientId |-> 1, weight |-> 70], [clientId |-> 2, weight |-> 70]}
    \cup {[clientId |-> 1, weight |-> 70, date |-> d] : d \in Times}

\* InsertDietPlan
InsertDietPlans ==
  {[userId |-> u, clientId |-> u, name |-> n, startDate |-> 0, meals |-> <<>>] :
     u \in UserIds, n \in PlanNames}

\* InsertAppointment
InsertAppointments ==
  {[userId |-> 1, clientId |-> 1, date |-> d, duration |-> 30, type |-> "online"] :
     d \in Times}
    \cup {[userId |-> 2, clientId |-> 2, date |-> 0, duration |-> 30,
           type |-> "in-person"]}

\* InsertActivity
InsertActivities ==
  {[userId |-> 1, type |-> "telegram", description |-> <<"Mesaj gonderildi">>]}

\* InsertBlogArticle
InsertBlogArticles ==
  {[title |-> "Yeni makale", summary |-> "s", content |-> "c", author |-> "a"]}

\* Partial<Insert...>
ClientPatches ==
  {[fullName |-> "Can Demir"], [isActive |-> FALSE], [userId |-> 2]}
MeasurementPatches == {[weight |-> 68], [date |-> 1]}
DietPlanPatches == {[isActive |-> FALSE], [clientId |-> 2]}
AppointmentPatches == {[status |-> "completed"], [date |-> 0]}

Limits == {NoNumber, NaN} \cup {Num(n) : n \in -1..MaxCalls}

EntityTypes ==
  {"user", "client", "measurement", "dietPlan", "appointment", "activity",
   "blogArticle"}

(***************************************************************************)
(* The record of identifiers handed out.                                   *)
(***************************************************************************)
\* the identifiers of the activities a call appended
NewActivityIds(st, st2) ==
  LET added == SubSeq(st2.activities, Len(st.activities) + 1, Len(st2.activities))
  IN  [i \in DOMAIN added |-> added[i].k]

\* after a create of `type` that returned `entity` and turned st into st2
Issued(type, entity, st, st2) ==
  LET withEntity == [issued EXCEPT ![type] = Append(@, entity.id)]
  IN  IF type = "activity" THEN withEntity
      ELSE [withEntity EXCEPT !["activity"] = @ \o NewActivityIds(st, st2)]

\* room left under the bound on calls
RoomForCall == calls < MaxCalls

\* the count of calls after one that turned the store into st2
Counted(st2) == IF st2 = storage THEN calls ELSE calls + 1

(***************************************************************************)
(* The browser: AuthProvider (client hooks/useAuth), whose state is the    *)
(* `user` and `loading` of useState and the "token" item of localStorage.  *)
(* null is written <<>>.  A token is the record of the account it was      *)
(* signed for.  A call of fetchUser, login or register runs up to its      *)
(* await, and resumes when the network answers; apiRequest (lib/queryClient)*)
(* either resolves with the server's 2xx answer or rejects.                *)
(***************************************************************************)
Accounts == {"ayse", "can"}

\* the token the server signs for an account, and the user it answers with
TokenFor(username) == [username |-> username]
UserOf(token) == [username |-> token.username, fullName |-> "Dyt"]

\* the provider as first rendered, with what an earlier visit left in
\* localStorage; fetchUser has not run yet
AuthProviderNew(stored) ==
  [user |-> <<>>, loading |-> TRUE, localStorage |-> stored,
   fetchUser |-> [at |-> "effect", token |-> <<>>], open |-> {}]

\* fetchUser, up to `await fetch("/api/auth/me")`
fetchUserBegin(p) ==
  LET token == p.localStorage
  IN  IF token = <<>>
        THEN [p EXCEPT !.loading = FALSE,
                       !.fetchUser = [at |-> "done", token |-> <<>>]]
        ELSE [p EXCEPT !.fetchUser = [at |-> "await", token |-> token]]

\* fetchUser, from the await on: res.ok, !res.ok, or fetch rejected
FetchOutcomes == {"ok", "notOk", "rejected"}

fetchUserResume(p, outcome) ==
  LET done == [p EXCEPT !.loading = FALSE,
                        !.fetchUser = [at |-> "done", token |-> <<>>]]
  IN  IF outcome = "ok"
        THEN [done EXCEPT !.user = <<UserOf(p.fetchUser.token[1])>>]
      ELSE IF outcome = "notOk"
        THEN [done EXCEPT !.localStorage = <<>>]
      ELSE done

\* login and register, up to `await apiRequest(...)`
loginBegin(p, username) ==
  [p EXCEPT !.open = @ \cup {[fn |-> "login", username |-> username]}]

registerBegin(p, username) ==
  [p EXCEPT !.open = @ \cup {[fn |-> "register", username |-> username]}]

\* login and register, from the await on: apiRequest resolved, or rejected
ApiOutcomes == {"resolved", "rejected"}

loginResume(p, call, outcome) ==
  LET closed == [p EXCEPT !.open = @ \ {call}]
  IN  IF outcome = "resolved"
        THEN [closed EXCEPT !.localStorage = <<TokenFor(call.username)>>,
                            !.user = <<UserOf(TokenFor(call.username))>>]
        ELSE closed

registerResume(p, call, outcome) ==
  LET closed == [p EXCEPT !.open = @ \ {call}]
  IN  IF outcome = "resolved"
        THEN [closed EXCEPT !.localStorage = <<TokenFor(call.username)>>,
                            !.user = <<UserOf(TokenFor(call.username))>>]
        ELSE closed

logout(p) == [p EXCEPT !.localStorage = <<>>, !.user = <<>>]

(***************************************************************************)
(* The browser: getTimeSince (client utils/formatDate.ts).  getTime() is   *)
(* counted in half seconds here, so that its division by 1000 is a         *)
(* division by 2.                                                          *)
(***************************************************************************)
TicksPerSecond == 2

getTimeSince(date, clock) ==
  LET seconds == (clock - date) \div TicksPerSecond
      minutes == seconds \div 60
      hours == minutes \div 60
      days == hours \div 24
      weeks == days \div 7
      months == days \div 30
      years == days \div 365
  IN  IF seconds < 60 THEN <<"Az once">>
      ELSE IF minutes < 60 THEN <<minutes, " dakika once">>
      ELSE IF hours < 24 THEN <<hours, " saat once">>
      ELSE IF days < 7 THEN <<days, " gun once">>
      ELSE IF weeks < 4 THEN <<weeks, " hafta once">>
      ELSE IF months < 12 THEN <<months, " ay once">>
      ELSE <<years, " yil once">>

\* nothing has been handed to getTimeSince
NothingShown == [date |-> 0, clock |-> 0, text |-> <<>>]

(***************************************************************************)
(* Direct use of the access layer: one action per IStorage method.  A      *)
(* method that only reads leaves the state as it is; what it returns is    *)
(* the value of its operator in the current state.                         *)
(***************************************************************************)
Reads(result) == result = result /\ UNCHANGED vars

Creates(type, r) ==
  /\ RoomForCall
  /\ storage' = r.store
  /\ issued' = Issued(type, r.result, storage, r.store)
  /\ calls' = Counted(r.store)
  /\ UNCHANGED <<now, tokens, pending, clientVars>>

Writes(r) ==
  /\ RoomForCall
  /\ storage' = r.store
  /\ calls' = Counted(r.store)
  /\ UNCHANGED <<now, tokens, pending, issued, clientVars>>

CallGetUser == \E id \in UserIds : Reads(getUser(storage, id))

CallGetUserByUsername ==
  \E d \in InsertUsers : Reads(getUserByUsername(storage, d.username))

CallCreateUser == \E d \in InsertUsers : Creates("user", createUser(storage, d, now))

CallGetClientsForUser == \E u \in UserIds : Reads(getClientsForUser(storage, u))

CallGetClient == \E id \in ClientIds : Reads(getClient(storage, id))

CallCreateClient ==
  \E d \in InsertClients : Creates("client", createClient(storage, d, now))

CallUpdateClient ==
  \E id \in ClientIds, d \in ClientPatches : Writes(updateClient(storage, id, d))

CallDeleteClient == \E id \in ClientIds : Writes(deleteClient(storage, id))

CallGetMeasurementsForClient ==
  \E c \in ClientIds : \E out \in getMeasurementsForClient(storage, c) : Reads(out)

CallGetMeasurement == \E id \in EntityIds : Reads(getMeasurement(storage, id))

CallCreateMeasurement ==
  \E d \in InsertMeasurements :
    Creates("measurement", createMeasurement(storage, d, now))

CallUpdateMeasurement ==
  \E id \in EntityIds, d \in MeasurementPatches :
    Writes(updateMeasurement(storage, id, d))

CallDeleteMeasurement == \E id \in EntityIds : Writes(deleteMeasurement(storage, id))

CallGetDietPlansForUser == \E u \in UserIds : Reads(getDietPlansForUser(storage, u))

CallGetDietPlansForClient ==
  \E c \in ClientIds : \E out \in getDietPlansForClient(storage, c) : Reads(out)

CallGetDietPlan == \E id \in EntityIds : Reads(getDietPlan(storage, id))

CallCreateDietPlan ==
  \E d \in InsertDietPlans : Creates("dietPlan", createDietPlan(storage, d, now))

CallUpdateDietPlan ==
  \E id \in EntityIds, d \in DietPlanPatches : Writes(updateDietPlan(storage, id, d))

CallDeleteDietPlan == \E id \in EntityIds : Writes(deleteDietPlan(storage, id))

CallGetAppointmentsForUser ==
  \E u \in UserIds : \E out \in getAppointmentsForUser(storage, u) : Reads(out)

CallGetAppointmentsForClient ==
  \E c \in ClientIds : \E out \in getAppointmentsForClient(storage, c) : Reads(out)

CallGetAppointment == \E id \in EntityIds : Reads(getAppointment(storage, id))

CallCreateAppointment ==
  \E d \in InsertAppointments :
    Creates("appointment", createAppointment(storage, d, now))

CallUpdateAppointment ==
  \E id \in EntityIds, d \in AppointmentPatches :
    Writes(updateAppointment(storage, id, d))

CallDeleteAppointment == \E id \in EntityIds : Writes(deleteAppointment(storage, id))

CallGetActivitiesForUser ==
  \E u \in UserIds, l \in Limits : \E out \in getActivitiesForUser(storage, u, l) :
    Reads(out)

CallCreateActivity ==
  \E d \in InsertActivities : Creates("activity", createActivity(storage, d, now))

CallGetBlogArticles ==
  \E l \in Limits : \E out \in getBlogArticles(storage, l) : Reads(out)

CallGetBlogArticle == \E id \in ArticleIds : Reads(getBlogArticle(storage, id))

CallCreateBlogArticle ==
  \E d \in InsertBlogArticles :
    Creates("blogArticle", createBlogArticle(storage, d, now))

\* the clock moves on between two calls
Tick ==
  /\ now < MaxTime
  /\ now' = now + 1
  /\ UNCHANGED <<storage, tokens, pending, issued, calls, clientVars>>

\* the server process has started
ServerInit ==
  /\ now = 0
  /\ storage = MemStorageNew(0)
  /\ tokens = {}
  /\ pending = <<>>
  /\ calls = 0
  /\ issued = [t \in EntityTypes |->
                 IF t = "blogArticle" THEN <<1, 2, 3>> ELSE <<>>]

Init ==
  /\ ServerInit
  /\ authProvider = AuthProviderNew(<<>>)
  /\ since = NothingShown

StoreNext ==
  \/ CallGetUser \/ CallGetUserByUsername \/ CallCreateUser
  \/ CallGetClientsForUser \/ CallGetClient \/ CallCreateClient
  \/ CallUpdateClient \/ CallDeleteClient
  \/ CallGetMeasurementsForClient \/ CallGetMeasurement \/ CallCreateMeasurement
  \/ CallUpdateMeasurement \/ CallDeleteMeasurement
  \/ CallGetDietPlansForUser \/ CallGetDietPlansForClient \/ CallGetDietPlan
  \/ CallCreateDietPlan \/ CallUpdateDietPlan \/ CallDeleteDietPlan
  \/ CallGetAppointmentsForUser \/ CallGetAppointmentsForClient
  \/ CallGetAppointment \/ CallCreateAppointment
  \/ CallUpdateAppointment \/ CallDeleteAppointment
  \/ CallGetActivitiesForUser \/ CallCreateActivity
  \/ CallGetBlogArticles \/ CallGetBlogArticle \/ CallCreateBlogArticle
  \/ Tick

StoreSpec == Init /\ [][StoreNext]_vars

(***************************************************************************)
(* shared/schema.ts: the insert schemas.  A schema is the set of keys it   *)
(* keeps and the set of keys it requires; parse throws a ZodError when a   *)
(* required key is missing and otherwise returns the body restricted to    *)
(* the schema's keys.                                                      *)
(***************************************************************************)
insertUserSchema ==
  [keys |-> {"username", "password", "email", "fullName", "profileImage",
             "telegramToken", "telegramChatId"},
   required |-> {"username", "password", "email", "fullName"}]

insertClientSchema ==
  [keys |-> {"userId", "fullName", "email", "phone", "birthDate", "gender",
             "profileImage", "height", "startingWeight", "targetWeight",
             "activityLevel", "medicalHistory", "dietaryRestrictions",
             "telegramChatId", "notes", "isActive"},
   required |-> {"userId", "fullName", "email", "phone", "gender"}]

insertMeasurementSchema ==
  [keys |-> {"clientId", "date", "weight", "chest", "waist", "hip", "arm",
             "thigh", "bodyFatPercentage", "notes"},
   required |-> {"clientId"}]

insertDietPlanSchema ==
  [keys |-> {"userId", "clientId", "name", "description", "startDate",
             "endDate", "dailyCalories", "macroProtein", "macroCarbs",
             "macroFat", "meals", "isActive"},
   required |-> {"userId", "clientId", "name", "startDate", "meals"}]

insertAppointmentSchema ==
  [keys |-> {"userId", "clientId", "date", "duration", "type", "notes", "status"},
   required |-> {"userId", "clientId", "date", "duration", "type"}]

loginSchema ==
  [keys |-> {"username", "password"}, required |-> {"username", "password"}]

\* schema.parse(body): <<data>>, or <<>> when it throws
Parse(schema, body) ==
  IF schema.required \subseteq DOMAIN body
    THEN <<Pick(body, schema.keys)>>
    ELSE <<>>

(***************************************************************************)
(* server/routes.ts.  A handler is a function of the store and the         *)
(* request; it gives the set of responses it may send (one, unless a sort  *)
(* is implementation-defined), each with the store it leaves.              *)
(***************************************************************************)
JWT_SECRET == "dietcim-secret-key"

\* jwt.sign({ id, username }, JWT_SECRET, ...)
JwtSign(user) == [id |-> user.id, username |-> user.username, key |-> JWT_SECRET]

\* (a variant that does not check the signature)
JwtVerifies_anyKey(token) == TRUE

\* jwt.verify(token, JWT_SECRET) returns (does not throw)
JwtVerifies(token) == token.key = JWT_SECRET

\* res.status(status).json(body), leaving the store st
Json(status, body, st) == [status |-> status, body |-> body, store |-> st]

Message(status, message, st) == Json(status, [message |-> message], st)

\* (a variant that sends the user as stored)
WithoutPassword_asStored(user) == user

\* const { password, ...userWithoutPassword } = user
WithoutPassword(user) == [k \in (DOMAIN user) \ {"password"} |-> user[k]]

\* parseInt of a path segment or a query value: digits give a number,
\* anything else NaN
ParseInt(text) == IF text.kind = "digits" THEN Num(text.n) ELSE NaN

\* Map.get with a key that may be NaN
GetBy(m, id) == IF id.kind = "number" THEN MapGet(m, id.n) ELSE Undefined

\* the authenticate middleware: <<userId>> when next() is called, else <<>>
authenticate(auth) ==
  IF auth.kind # "bearer" THEN <<>>
  ELSE IF JwtVerifies(auth.token) THEN <<auth.token.id>> ELSE <<>>

authenticateMessage(auth) ==
  IF auth.kind # "bearer"
    THEN "Yetkilendirme hatasi: Token bulunamadi"
    ELSE "Yetkilendirme hatasi: Gecersiz token"

Unauthorized(auth, st) == {Message(401, authenticateMessage(auth), st)}

\* (a variant that skips the lookup of the username)
registerCheck_noLookup(st, body) ==
  LET userData == Parse(insertUserSchema, body)
  IN  IF userData = <<>> THEN <<Message(400, "Validation error", st)>> ELSE <<>>

\* ---- POST /api/auth/register, up to the awaited bcrypt.hash: the response
\* sent at once, or <<>> when the handler goes on to create the user
registerCheck(st, body) ==
  LET userData == Parse(insertUserSchema, body)
  IN  IF userData = <<>> THEN <<Message(400, "Validation error", st)>>
      ELSE IF getUserByUsername(st, userData[1].username) # Undefined
        THEN <<Message(400, "Bu kullanici adi zaten kullaniliyor", st)>>
      ELSE <<>>

\* ---- POST /api/auth/register, from the resolved hash on
registerComplete(st, userData, t) ==
  LET r == createUser(st, userData, t)
      user == r.result
  IN  Json(201, [user |-> WithoutPassword(user), token |-> JwtSign(user)], r.store)

\* (a variant that tells an unknown username from a wrong password)
login_tellsUnknown(st, body) ==
  LET parsed == Parse(loginSchema, body)
      user == getUserByUsername(st, parsed[1].username)
  IN  IF parsed = <<>> THEN {Message(400, "Validation error", st)}
      ELSE IF user = Undefined
        THEN {Message(401, "Kullanici bulunamadi", st)}
      ELSE IF ~BcryptCompare(parsed[1].password, user[1].password)
        THEN {Message(401, "Gecersiz kullanici adi veya sifre", st)}
      ELSE {Json(200, [user |-> WithoutPassword(user[1]),
                       token |-> JwtSign(user[1])], st)}

\* ---- POST /api/auth/login
login(st, body) ==
  LET parsed == Parse(loginSchema, body)
      user == getUserByUsername(st, parsed[1].username)
  IN  IF parsed = <<>> THEN {Message(400, "Validation error", st)}
      ELSE IF user = Undefined
        THEN {Message(401, "Gecersiz kullanici adi veya sifre", st)}
      ELSE IF ~BcryptCompare(parsed[1].password, user[1].password)
        THEN {Message(401, "Gecersiz kullanici adi veya sifre", st)}
      ELSE {Json(200, [user |-> WithoutPassword(user[1]),
                       token |-> JwtSign(user[1])], st)}

\* ---- GET /api/auth/me
me(st, auth) ==
  LET who == authenticate(auth)
      user == getUser(st, who[1])
  IN  IF who = <<>> THEN Unauthorized(auth, st)
      ELSE IF user = Undefined THEN {Message(404, "Kullanici bulunamadi", st)}
      ELSE {Json(200, WithoutPassword(user[1]), st)}

\* ---- GET /api/clients
listClients(st, auth) ==
  LET who == authenticate(auth)
  IN  IF who = <<>> THEN Unauthorized(auth, st)
      ELSE {Json(200, getClientsForUser(st, who[1]), st)}

\* ---- GET /api/clients/:id
readClient(st, auth, idParam) ==
  LET who == authenticate(auth)
      client == GetBy(st.clients, ParseInt(idParam))
  IN  IF who = <<>> THEN Unauthorized(auth, st)
      ELSE IF client = Undefined THEN {Message(404, "Danisan bulunamadi", st)}
      ELSE IF client[1].userId # who[1]
        THEN {Message(403, "Bu danisana erisim izniniz yok", st)}
      ELSE {Json(200, client[1], st)}

\* ---- POST /api/clients
postClient(st, auth, body, t) ==
  LET who == authenticate(auth)
      clientData == Parse(insertClientSchema, Spread(body, [userId |-> who[1]]))
  IN  IF who = <<>> THEN Unauthorized(auth, st)
      ELSE IF clientData = <<>> THEN {Message(400, "Validation error", st)}
      ELSE LET r == createClient(st, clientData[1], t)
           IN  {Json(201, r.result, r.store)}

\* (a variant that skips the ownership check)
putClient_noOwnerCheck(st, auth, idParam, body) ==
  LET who == authenticate(auth)
      id == ParseInt(idParam)
      client == GetBy(st.clients, id)
  IN  IF who = <<>> THEN Unauthorized(auth, st)
      ELSE IF client = Undefined THEN {Message(404, "Danisan bulunamadi", st)}
      ELSE LET r == updateClient(st, id.n, body)
           IN  {Json(200, r.result[1], r.store)}

\* ---- PUT /api/clients/:id
putClient(st, auth, idParam, body) ==
  LET who == authenticate(auth)
      id == ParseInt(idParam)
      client == GetBy(st.clients, id)
  IN  IF who = <<>> THEN Unauthorized(auth, st)
      ELSE IF client = Undefined THEN {Message(404, "Danisan bulunamadi", st)}
      ELSE IF client[1].userId # who[1]
        THEN {Message(403, "Bu danisani guncelleme izniniz yok", st)}
      ELSE LET r == updateClient(st, id.n, body)
           IN  {Json(200, r.result[1], r.store)}

\* ---- DELETE /api/clients/:id
removeClient(st, auth, idParam) ==
  LET who == authenticate(auth)
      id == ParseInt(idParam)
      client == GetBy(st.clients, id)
  IN  IF who = <<>> THEN Unauthorized(auth, st)
      ELSE IF client = Undefined THEN {Message(404, "Danisan bulunamadi", st)}
      ELSE IF client[1].userId # who[1]
        THEN {Message(403, "Bu danisani silme izniniz yok", st)}
      ELSE {Json(204, <<>>, deleteClient(st, id.n).store)}

\* ---- GET /api/clients/:clientId/measurements
\* (a variant that does not look the client up)
listMeasurements_noLookup(st, auth, idParam) ==
  LET who == authenticate(auth)
      clientId == ParseInt(idParam)
  IN  IF who = <<>> THEN Unauthorized(auth, st)
      ELSE IF clientId.kind # "number"
        THEN {Message(404, "Danisan bulunamadi", st)}
      ELSE {Json(200, out, st) : out \in getMeasurementsForClient(st, clientId.n)}

listMeasurements(st, auth, idParam) ==
  LET who == authenticate(auth)
      clientId == ParseInt(idParam)
      client == GetBy(st.clients, clientId)
  IN  IF who = <<>> THEN Unauthorized(auth, st)
      ELSE IF client = Undefined THEN {Message(404, "Danisan bulunamadi", st)}
      ELSE IF client[1].userId # who[1]
        THEN {Message(403, "Bu danisanin olcumlerine erisim izniniz yok", st)}
      ELSE {Json(200, out, st) : out \in getMeasurementsForClient(st, clientId.n)}

\* ---- POST /api/clients/:clientId/measurements
postMeasurement(st, auth, idParam, body, t) ==
  LET who == authenticate(auth)
      clientId == ParseInt(idParam)
      client == GetBy(st.clients, clientId)
      measurementData ==
        Parse(insertMeasurementSchema, Spread(body, [clientId |-> clientId.n]))
  IN  IF who = <<>> THEN Unauthorized(auth, st)
      ELSE IF client = Undefined THEN {Message(404, "Danisan bulunamadi", st)}
      ELSE IF client[1].userId # who[1]
        THEN {Message(403, "Bu danisan icin olcum ekleme izniniz yok", st)}
      ELSE IF measurementData = <<>> THEN {Message(400, "Validation error", st)}
      ELSE LET r == createMeasurement(st, measurementData[1], t)
           IN  {Json(201, r.result, r.store)}

\* ---- GET /api/diet-plans
listDietPlans(st, auth) ==
  LET who == authenticate(auth)
  IN  IF who = <<>> THEN Unauthorized(auth, st)
      ELSE {Json(200, getDietPlansForUser(st, who[1]), st)}

\* ---- GET /api/clients/:clientId/diet-plans
listClientDietPlans(st, auth, idParam) ==
  LET who == authenticate(auth)
      clientId == ParseInt(idParam)
      client == GetBy(st.clients, clientId)
  IN  IF who = <<>> THEN Unauthorized(auth, st)
      ELSE IF client = Undefined THEN {Message(404, "Danisan bulunamadi", st)}
      ELSE IF client[1].userId # who[1]
        THEN {Message(403, "Bu danisanin diyet planlarina erisim izniniz yok", st)}
      ELSE {Json(200, out, st) : out \in getDietPlansForClient(st, clientId.n)}

\* ---- POST /api/clients/:clientId/diet-plans
postDietPlan(st, auth, idParam, body, t) ==
  LET who == authenticate(auth)
      clientId == ParseInt(idParam)
      client == GetBy(st.clients, clientId)
      dietPlanData ==
        Parse(insertDietPlanSchema,
              Spread(body, [userId |-> who[1], clientId |-> clientId.n]))
  IN  IF who = <<>> THEN Unauthorized(auth, st)
      ELSE IF client = Undefined THEN {Message(404, "Danisan bulunamadi", st)}
      ELSE IF client[1].userId # who[1]
        THEN {Message(403, "Bu danisan icin diyet plani olusturma izniniz yok", st)}
      ELSE IF dietPlanData = <<>> THEN {Message(400, "Validation error", st)}
      ELSE LET r == createDietPlan(st, dietPlanData[1], t)
           IN  {Json(201, r.result, r.store)}

\* ---- PUT /api/diet-plans/:id
putDietPlan(st, auth, idParam, body) ==
  LET who == authenticate(auth)
      id == ParseInt(idParam)
      dietPlan == GetBy(st.dietPlans, id)
  IN  IF who = <<>> THEN Unauthorized(auth, st)
      ELSE IF dietPlan = Undefined
        THEN {Message(404, "Diyet plani bulunamadi", st)}
      ELSE IF dietPlan[1].userId # who[1]
        THEN {Message(403, "Bu diyet planini guncelleme izniniz yok", st)}
      ELSE LET r == updateDietPlan(st, id.n, body)
           IN  {Json(200, r.result[1], r.store)}

\* ---- GET /api/appointments
listAppointments(st, auth) ==
  LET who == authenticate(auth)
  IN  IF who = <<>> THEN Unauthorized(auth, st)
      ELSE {Json(200, out, st) : out \in getAppointmentsForUser(st, who[1])}

\* ---- GET /api/clients/:clientId/appointments
listClientAppointments(st, auth, idParam) ==
  LET who == authenticate(auth)
      clientId == ParseInt(idParam)
      client == GetBy(st.clients, clientId)
  IN  IF who = <<>> THEN Unauthorized(auth, st)
      ELSE IF client = Undefined THEN {Message(404, "Danisan bulunamadi", st)}
      ELSE IF client[1].userId # who[1]
        THEN {Message(403, "Bu danisanin randevularina erisim izniniz yok", st)}
      ELSE {Json(200, out, st) : out \in getAppointmentsForClient(st, clientId.n)}

\* ---- POST /api/appointments
postAppointment(st, auth, body, t) ==
  LET who == authenticate(auth)
      appointmentData ==
        Parse(insertAppointmentSchema, Spread(body, [userId |-> who[1]]))
      client == getClient(st, appointmentData[1].clientId)
  IN  IF who = <<>> THEN Unauthorized(auth, st)
      ELSE IF appointmentData = <<>> THEN {Message(400, "Validation error", st)}
      ELSE IF client = Undefined THEN {Message(404, "Danisan bulunamadi", st)}
      ELSE IF client[1].userId # who[1]
        THEN {Message(403, "Bu danisan icin randevu olusturma izniniz yok", st)}
      ELSE LET r == createAppointment(st, appointmentData[1], t)
           IN  {Json(201, r.result, r.store)}

\* (a variant that answers 404 for another user's appointment)
putAppointment_hidesForeign(st, auth, idParam, body) ==
  LET who == authenticate(auth)
      id == ParseInt(idParam)
      appointment == GetBy(st.appointments, id)
  IN  IF who = <<>> THEN Unauthorized(auth, st)
      ELSE IF appointment = Undefined \/ appointment[1].userId # who[1]
        THEN {Message(404, "Randevu bulunamadi", st)}
      ELSE LET r == updateAppointment(st, id.n, body)
           IN  {Json(200, r.result[1], r.store)}

\* ---- PUT /api/appointments/:id
putAppointment(st, auth, idParam, body) ==
  LET who == authenticate(auth)
      id == ParseInt(idParam)
      appointment == GetBy(st.appointments, id)
  IN  IF who = <<>> THEN Unauthorized(auth, st)
      ELSE IF appointment = Undefined THEN {Message(404, "Randevu bulunamadi", st)}
      ELSE IF appointment[1].userId # who[1]
        THEN {Message(403, "Bu randevuyu guncelleme izniniz yok", st)}
      ELSE LET r == updateAppointment(st, id.n, body)
           IN  {Json(200, r.result[1], r.store)}

\* req.query.limit ? parseInt(req.query.limit) : undefined
\* (a query value is absent, or a text: the empty text is falsy)
QueryLimit(q) ==
  IF q.kind = "absent" \/ q.kind = "empty" THEN NoNumber ELSE ParseInt(q)

\* ---- GET /api/activities
listActivities(st, auth, q) ==
  LET who == authenticate(auth)
  IN  IF who = <<>> THEN Unauthorized(auth, st)
      ELSE {Json(200, out, st) :
              out \in getActivitiesForUser(st, who[1], QueryLimit(q))}

\* ---- GET /api/blog
listBlog(st, q) == {Json(200, out, st) : out \in getBlogArticles(st, QueryLimit(q))}

\* ---- GET /api/blog/:id
readBlogArticle(st, idParam) ==
  LET article == GetBy(st.blogArticles, ParseInt(idParam))
  IN  IF article = Undefined THEN {Message(404, "Makale bulunamadi", st)}
      ELSE {Json(200, article[1], st)}

\* today.setHours(0, 0, 0, 0): the first tick of the day of t
TicksPerDay == 2
StartOfDay_now(t) == t
StartOfDay(t) == (t \div TicksPerDay) * TicksPerDay

\* ---- GET /api/dashboard/stats
dashboardStats(st, auth, t) ==
  LET who == authenticate(auth)
      clients == getClientsForUser(st, who[1])
      activeClients ==
        Len(SelectSeq(clients,
                      LAMBDA c : "isActive" \in DOMAIN c /\ c.isActive = TRUE))
      today == StartOfDay(t)
      tomorrow == today + TicksPerDay
      dietPlans == getDietPlansForUser(st, who[1])
      activeDietPlans ==
        Len(SelectSeq(dietPlans,
                      LAMBDA d : "isActive" \in DOMAIN d /\ d.isActive = TRUE))
  IN  IF who = <<>> THEN Unauthorized(auth, st)
      ELSE {Json(200,
                 [activeClients |-> activeClients,
                  todayAppointments |->
                    Len(SelectSeq(allAppointments,
                                  LAMBDA a : a.date >= today /\ a.date < tomorrow)),
                  activeDietPlans |-> activeDietPlans,
                  telegramMessages |-> 12],
                 st) :
              allAppointments \in getAppointmentsForUser(st, who[1])}

(***************************************************************************)
(* The requests clients send.                                              *)
(***************************************************************************)
ForgedTokens == {[id |-> 1, username |-> "ayse", key |-> "not-the-secret"]}

\* the Authorization header: missing, not a Bearer header, or Bearer <token>
Auths ==
  {[kind |-> "none"], [kind |-> "basic"]}
    \cup {[kind |-> "bearer", token |-> tk] : tk \in tokens \cup ForgedTokens}

\* the headers the modelled clients send: none, or a token the server signed
Callers ==
  {[kind |-> "none"]} \cup {[kind |-> "bearer", token |-> tk] : tk \in tokens}

Digits(n) == [kind |-> "digits", n |-> n]
ClientIdParams == {Digits(n) : n \in ClientIds} \cup {[kind |-> "text"]}
EntityIdParams == {Digits(n) : n \in EntityIds} \cup {[kind |-> "text"]}
ArticleIdParams == {Digits(n) : n \in ArticleIds} \cup {[kind |-> "text"]}
LimitQueries ==
  {[kind |-> "absent"], [kind |-> "empty"], [kind |-> "text"]}
    \cup {Digits(n) : n \in -1..MaxCalls}

RegisterBodies == InsertUsers \cup {[username |-> "ayse"]}

LoginBodies ==
  {[username |-> u, password |-> pw] :
     u \in {"ayse", "can"}, pw \in {"parola1", "yanlis"}}
    \cup {[username |-> "ayse"]}

PostClientBodies ==
  {[fullName |-> "Ayse Kaya", email |-> "e", phone |-> "p", gender |-> "f"],
   [fullName |-> "Can Demir", email |-> "e", phone |-> "p", gender |-> "m",
    isActive |-> TRUE, userId |-> 2, id |-> 9],
   [fullName |-> "Ayse Kaya"]}

PutClientBodies == {[isActive |-> FALSE], [userId |-> 2], [id |-> 9]}

PostMeasurementBodies ==
  {[weight |-> 70, clientId |-> 2]} \cup {[weight |-> 70, date |-> d] : d \in Times}

PostDietPlanBodies ==
  {[name |-> "Kilo Verme Diyeti", startDate |-> 0, meals |-> <<>>],
   [name |-> "Kilo Verme Diyeti"]}

PutDietPlanBodies == {[isActive |-> FALSE], [clientId |-> 2]}

\* the dates of the appointments asked for: midnight of the first day and
\* midnight of the next
AppointmentDates == {0, TicksPerDay}

PostAppointmentBodies ==
  {[clientId |-> c, date |-> d, duration |-> 30, type |-> "online"] :
     c \in ClientIds, d \in AppointmentDates}
    \cup {[clientId |-> c] : c \in ClientIds}

PutAppointmentBodies == {[status |-> "completed"], [date |-> 0]}

\* PUT bodies that no schema of the entity accepts, whole or partial: a text
\* where the column is boolean("is_active") or integer("duration")
IllTypedClientBodies == {[isActive |-> "evet"]}
IllTypedDietPlanBodies == {[isActive |-> "evet"]}
IllTypedAppointmentBodies == {[duration |-> "uzun"]}

(***************************************************************************)
(* The server: one action per route.                                       *)
(***************************************************************************)
\* the response r is sent and its store becomes the store
Sends(r) ==
  /\ r.store # storage => RoomForCall
  /\ storage' = r.store
  /\ calls' = Counted(r.store)
  /\ UNCHANGED <<now, tokens, pending, issued, clientVars>>

\* the same for a route that answers 201 with the entity it created
SendsCreated(type, r) ==
  /\ r.store # storage => RoomForCall
  /\ storage' = r.store
  /\ calls' = Counted(r.store)
  /\ issued' = IF r.status = 201 THEN Issued(type, r.body, storage, r.store)
               ELSE issued
  /\ UNCHANGED <<now, tokens, pending, clientVars>>

\* POST /api/auth/register arrives: it is answered at once, or waits for the hash
RegisterBegin ==
  \E body \in RegisterBodies :
    LET early == registerCheck(storage, body)
    IN  IF early # <<>>
          THEN UNCHANGED vars
          ELSE /\ Len(storage.users) + Len(pending) < MaxUsers
               /\ pending' = Append(pending, Parse(insertUserSchema, body)[1])
               /\ UNCHANGED <<storage, now, tokens, issued, calls, clientVars>>

\* the hash of a waiting registration resolves
RegisterFinish ==
  \E i \in DOMAIN pending :
    LET r == registerComplete(storage, pending[i], now)
    IN  /\ storage' = r.store
        /\ tokens' = tokens \cup {r.body.token}
        /\ pending' = SubSeq(pending, 1, i - 1) \o SubSeq(pending, i + 1, Len(pending))
        /\ issued' = [issued EXCEPT !["user"] = Append(@, r.body.user.id)]
        /\ UNCHANGED <<now, calls, clientVars>>

Login ==
  \E body \in LoginBodies : \E r \in login(storage, body) :
    /\ tokens' = IF r.status = 200 THEN tokens \cup {r.body.token} ELSE tokens
    /\ UNCHANGED <<storage, now, pending, issued, calls, clientVars>>

Me == \E auth \in Callers : \E r \in me(storage, auth) : Sends(r)

ListClients == \E auth \in Callers : \E r \in listClients(storage, auth) : Sends(r)

ReadClient ==
  \E auth \in Callers, id \in ClientIdParams :
    \E r \in readClient(storage, auth, id) : Sends(r)

PostClient ==
  \E auth \in Callers, body \in PostClientBodies :
    \E r \in postClient(storage, auth, body, now) : SendsCreated("client", r)

PutClient ==
  \E auth \in Callers, id \in ClientIdParams, body \in PutClientBodies :
    \E r \in putClient(storage, auth, id, body) : Sends(r)

RemoveClient ==
  \E auth \in Callers, id \in ClientIdParams :
    \E r \in removeClient(storage, auth, id) : Sends(r)

ListMeasurements ==
  \E auth \in Callers, id \in ClientIdParams :
    \E r \in listMeasurements(storage, auth, id) : Sends(r)

PostMeasurement ==
  \E auth \in Callers, id \in ClientIdParams, body \in PostMeasurementBodies :
    \E r \in postMeasurement(storage, auth, id, body, now) :
      SendsCreated("measurement", r)

ListDietPlans == \E auth \in Callers : \E r \in listDietPlans(storage, auth) : Sends(r)

ListClientDietPlans ==
  \E auth \in Callers, id \in ClientIdParams :
    \E r \in listClientDietPlans(storage, auth, id) : Sends(r)

PostDietPlan ==
  \E auth \in Callers, id \in ClientIdParams, body \in PostDietPlanBodies :
    \E r \in postDietPlan(storage, auth, id, body, now) :
      SendsCreated("dietPlan", r)

PutDietPlan ==
  \E auth \in Callers, id \in EntityIdParams, body \in PutDietPlanBodies :
    \E r \in putDietPlan(storage, auth, id, body) : Sends(r)

ListAppointments ==
  \E auth \in Callers : \E r \in listAppointments(storage, auth) : Sends(r)

ListClientAppointments ==
  \E auth \in Callers, id \in ClientIdParams :
    \E r \in listClientAppointments(storage, auth, id) : Sends(r)

PostAppointment ==
  \E auth \in Callers, body \in PostAppointmentBodies :
    \E r \in postAppointment(storage, auth, body, now) :
      SendsCreated("appointment", r)

PutAppointment ==
  \E auth \in Callers, id \in EntityIdParams, body \in PutAppointmentBodies :
    \E r \in putAppointment(storage, auth, id, body) : Sends(r)

ListActivities ==
  \E auth \in Callers, q \in LimitQueries :
    \E r \in listActivities(storage, auth, q) : Sends(r)

ListBlog == \E q \in LimitQueries : \E r \in listBlog(storage, q) : Sends(r)

ReadBlogArticle ==
  \E id \in ArticleIdParams : \E r \in readBlogArticle(storage, id) : Sends(r)

DashboardStats ==
  \E auth \in Callers : \E r \in dashboardStats(storage, auth, now) : Sends(r)

Next ==
  \/ RegisterBegin \/ RegisterFinish \/ Login \/ Me
  \/ ListClients \/ ReadClient \/ PostClient \/ PutClient \/ RemoveClient
  \/ ListMeasurements \/ PostMeasurement
  \/ ListDietPlans \/ ListClientDietPlans \/ PostDietPlan \/ PutDietPlan
  \/ ListAppointments \/ ListClientAppointments \/ PostAppointment
  \/ PutAppointment
  \/ ListActivities \/ ListBlog \/ ReadBlogArticle \/ DashboardStats
  \/ Tick

Spec == Init /\ [][Next]_vars

(***************************************************************************)
(* The process restarts: the module is loaded again and `new MemStorage()` *)
(* replaces the store.  The requests in flight are lost with the process;  *)
(* JWT_SECRET is the same constant and the tokens already handed out stay  *)
(* with their holders.                                                     *)
(***************************************************************************)
Restart ==
  /\ storage' = MemStorageNew(now)
  /\ pending' = <<>>
  /\ issued' = [t \in EntityTypes |->
                  IF t = "blogArticle" THEN <<1, 2, 3>> ELSE <<>>]
  /\ UNCHANGED <<now, tokens, calls, clientVars>>

RestartNext ==
  \/ RegisterBegin \/ RegisterFinish \/ Login \/ Me \/ Restart \/ Tick

RestartSpec == Init /\ [][RestartNext]_vars

(***************************************************************************)
(* The browser's AuthProvider: the page is opened with or without a token  *)
(* left in localStorage, the effect starts fetchUser, and from then on the *)
(* user may log in, register and log out while earlier calls are still     *)
(* waiting for their answers.                                              *)
(***************************************************************************)
StoredTokens == {<<>>} \cup {<<TokenFor(a)>> : a \in Accounts}

AuthInit ==
  /\ ServerInit
  /\ authProvider \in {AuthProviderNew(stored) : stored \in StoredTokens}
  /\ since = NothingShown

\* the provider takes the step to p
Renders(p) == authProvider' = p /\ UNCHANGED <<serverVars, since>>

\* the effect has run: the page reacts to the user
Interactive == authProvider.fetchUser.at # "effect"

FetchUserBegin ==
  /\ authProvider.fetchUser.at = "effect"
  /\ Renders(fetchUserBegin(authProvider))

FetchUserResume ==
  /\ authProvider.fetchUser.at = "await"
  /\ \E outcome \in FetchOutcomes : Renders(fetchUserResume(authProvider, outcome))

LoginBegin ==
  /\ Interactive
  /\ \E username \in Accounts : Renders(loginBegin(authProvider, username))

LoginResume ==
  \E call \in authProvider.open, outcome \in ApiOutcomes :
    /\ call.fn = "login"
    /\ Renders(loginResume(authProvider, call, outcome))

RegisterUserBegin ==
  /\ Interactive
  /\ \E username \in Accounts : Renders(registerBegin(authProvider, username))

RegisterUserResume ==
  \E call \in authProvider.open, outcome \in ApiOutcomes :
    /\ call.fn = "register"
    /\ Renders(registerResume(authProvider, call, outcome))

Logout == Interactive /\ Renders(logout(authProvider))

AuthNext ==
  \/ FetchUserBegin \/ FetchUserResume
  \/ LoginBegin \/ LoginResume
  \/ RegisterUserBegin \/ RegisterUserResume
  \/ Logout

AuthSpec == AuthInit /\ [][AuthNext]_vars

(***************************************************************************)
(* getTimeSince applied to dates that lie whole days, and a little more,   *)
(* before the reading of the clock.                                        *)
(***************************************************************************)
MaxDays == 1100   \* days between the date and the clock

\* parts of a day, in seconds: around the minute, the hour and the full day
SecondsIntoDay == {0, 59, 60, 3599, 3600, 86399}

\* what getTime() of the clock can read when the date reads 0
ClockReadings ==
  {(days * 24 * 60 * 60 + seconds) * TicksPerSecond + half :
     days \in 0..MaxDays, seconds \in SecondsIntoDay, half \in {0, 1}}

SinceInit ==
  /\ ServerInit
  /\ authProvider = AuthProviderNew(<<>>)
  /\ since \in {[date |-> 0, clock |-> c, text |-> <<>>] : c \in ClockReadings}

ShowTimeSince ==
  /\ since.text = <<>>
  /\ since' = [since EXCEPT !.text = <<getTimeSince(since.date, since.clock)>>]
  /\ UNCHANGED <<serverVars, authProvider>>

SinceNext == ShowTimeSince

SinceSpec == SinceInit /\ [][SinceNext]_vars

(***************************************************************************)
(* Properties.                                                             *)
(***************************************************************************)
Bearer(tk) == [kind |-> "bearer", token |-> tk]

\* an error response: a message and nothing else
OnlyMessage(r) == DOMAIN r.body = {"message"}

\* r is the answer `status`, carries no data and leaves the store alone
Refused(r, status) == r.status = status /\ OnlyMessage(r) /\ r.store = storage

\* the entries of a map whose value is owned by somebody else than `who`
ForeignEntries(m, who) == {i \in DOMAIN m : m[i].v.userId # who}

\* C1: a user who addresses another user's client with GET, PUT or DELETE
\* /api/clients/:id is answered 403, gets none of the client's data, and the
\* store stays as it is.
C1_ForeignClientRefused ==
  \A tk \in tokens : \A i \in ForeignEntries(storage.clients, tk.id) :
    LET id == Digits(storage.clients[i].k)
    IN  /\ \A r \in readClient(storage, Bearer(tk), id) : Refused(r, 403)
        /\ \A body \in PutClientBodies :
             \A r \in putClient(storage, Bearer(tk), id, body) : Refused(r, 403)
        /\ \A r \in removeClient(storage, Bearer(tk), id) : Refused(r, 403)

C1_Witness ==
  \E tk \in tokens : \E i \in ForeignEntries(storage.clients, tk.id) :
    /\ MapHas(storage.users, tk.id)
    /\ \E r \in removeClient(storage, Bearer(tk), Digits(storage.clients[i].k)) :
         r.status = 403

\* The client a /api/clients/:clientId/... request addresses.
ClientAt(idParam) == GetBy(storage.clients, ParseInt(idParam))

\* every response of the set is the refusal the looked-up entity calls for:
\* 404 when it is absent, 403 when it is somebody else's, and neither of the
\* two when it is the caller's own
RefusedFor(entity, who, responses) ==
  /\ entity = Undefined => \A r \in responses : Refused(r, 404)
  /\ (entity # Undefined /\ entity[1].userId # who) =>
       \A r \in responses : Refused(r, 403)
  /\ (entity # Undefined /\ entity[1].userId = who) =>
       \A r \in responses : r.status \notin {403, 404}

\* the routes of C2 that take the client from the path, and the two PUT routes
C2_PathRoutes(tk) ==
  /\ \A id \in ClientIdParams :
       LET client == ClientAt(id)
           auth == Bearer(tk)
       IN  /\ RefusedFor(client, tk.id, listMeasurements(storage, auth, id))
           /\ \A body \in PostMeasurementBodies :
                RefusedFor(client, tk.id,
                           postMeasurement(storage, auth, id, body, now))
           /\ RefusedFor(client, tk.id, listClientDietPlans(storage, auth, id))
           /\ \A body \in PostDietPlanBodies :
                RefusedFor(client, tk.id,
                           postDietPlan(storage, auth, id, body, now))
           /\ RefusedFor(client, tk.id, listClientAppointments(storage, auth, id))
  /\ \A id \in EntityIdParams :
       /\ \A body \in PutDietPlanBodies :
            RefusedFor(GetBy(storage.dietPlans, ParseInt(id)), tk.id,
                       putDietPlan(storage, Bearer(tk), id, body))
       /\ \A body \in PutAppointmentBodies :
            RefusedFor(GetBy(storage.appointments, ParseInt(id)), tk.id,
                       putAppointment(storage, Bearer(tk), id, body))

\* POST /api/appointments names its client in the body
C2_PostAppointment(tk, bodies) ==
  \A body \in bodies :
    RefusedFor(getClient(storage, body.clientId), tk.id,
               postAppointment(storage, Bearer(tk), body, now))

\* C2 as claimed: on every measurement, diet-plan and appointment route a
\* missing resource is answered 404 and somebody else's 403, store unchanged,
\* whatever the body.
C2_AsClaimed ==
  \A tk \in tokens :
    C2_PathRoutes(tk) /\ C2_PostAppointment(tk, PostAppointmentBodies)

\* C2, amended: the same, where POST /api/appointments is taken with a body
\* that satisfies the appointment schema; a body that does not is answered
\* 400, before any client is looked up, and the store is unchanged.
C2_RefusalsDistinct ==
  \A tk \in tokens :
    /\ C2_PathRoutes(tk)
    /\ C2_PostAppointment(tk,
         {b \in PostAppointmentBodies :
            Parse(insertAppointmentSchema, Spread(b, [userId |-> tk.id])) # <<>>})
    /\ \A b \in PostAppointmentBodies :
         Parse(insertAppointmentSchema, Spread(b, [userId |-> tk.id])) = <<>> =>
           \A r \in postAppointment(storage, Bearer(tk), b, now) : Refused(r, 400)

C2_Witness ==
  \E tk \in tokens :
    /\ \E i \in ForeignEntries(storage.appointments, tk.id) :
         \E r \in putAppointment(storage, Bearer(tk),
                                 Digits(storage.appointments[i].k),
                                 [status |-> "completed"]) : r.status = 403
    /\ \E id \in EntityIds :
         \E r \in putAppointment(storage, Bearer(tk), Digits(id),
                                 [status |-> "completed"]) : r.status = 404

\* C3: a registration whose username is already in the store is answered 400;
\* it creates no user, signs no token and leaves the user id counter alone.
C3_DuplicateUsernameRejected ==
  \A body \in RegisterBodies :
    ("username" \in DOMAIN body
       /\ getUserByUsername(storage, body.username) # Undefined) =>
      LET early == registerCheck(storage, body)
      IN  /\ early # <<>>
          /\ Refused(early[1], 400)
          /\ early[1].store.users = storage.users
          /\ early[1].store.userIdCounter = storage.userIdCounter

C3_Witness ==
  \E body \in InsertUsers :
    /\ getUserByUsername(storage, body.username) # Undefined
    /\ registerCheck(storage, body) # <<>>
    /\ Len(storage.users) = 1 /\ pending = <<>>

StrictlyIncreasing(s) == \A i, j \in DOMAIN s : i < j => s[i] < s[j]

\* C4: for every entity type, each create returns an identifier strictly
\* greater than every identifier returned before for that type, so the
\* identifier of a deleted entity is never handed out again.
C4_IdsStrictlyIncreasing ==
  \A type \in EntityTypes : StrictlyIncreasing(issued[type])

\* a client was deleted and a client was created after it
C4_Witness ==
  /\ Len(issued.client) >= 2
  /\ ~MapHas(storage.clients, issued.client[1])
  /\ MapHas(storage.clients, issued.client[Len(issued.client)])

UserInStore(id) == MapHas(storage.users, id)

\* C5 as claimed: every stored client, diet plan and appointment names a user
\* of the store, and every stored measurement names a client of the store
\* whose owner is a user of the store.
C5_AsClaimed ==
  /\ \A i \in DOMAIN storage.clients : UserInStore(storage.clients[i].v.userId)
  /\ \A i \in DOMAIN storage.dietPlans : UserInStore(storage.dietPlans[i].v.userId)
  /\ \A i \in DOMAIN storage.appointments :
       UserInStore(storage.appointments[i].v.userId)
  /\ \A i \in DOMAIN storage.measurements :
       LET client == getClient(storage, storage.measurements[i].v.clientId)
       IN  client # Undefined /\ UserInStore(client[1].userId)

Dated(m) == "date" \in DOMAIN m

\* C6 as claimed: getMeasurementsForClient(c) returns exactly the stored
\* measurements of client c, and of any two returned measurements that carry
\* a date the one with the later date comes first.
C6_AsClaimed ==
  \A c \in ClientIds : \A out \in getMeasurementsForClient(storage, c) :
    /\ Len(out) = Cardinality({i \in DOMAIN storage.measurements :
                                 storage.measurements[i].v.clientId = c})
    /\ \A i \in DOMAIN out : out[i].clientId = c
                               /\ getMeasurement(storage, out[i].id) = <<out[i]>>
    /\ \A i, j \in DOMAIN out :
         (i < j /\ Dated(out[i]) /\ Dated(out[j])) => out[i].date >= out[j].date

\* the ids of the activities of a user, in the order of their creation
ActivityIdsOf(userId) ==
  LET mine == SelectSeq(MapValues(storage.activities),
                        LAMBDA a : a.userId = userId)
  IN  [i \in DOMAIN mine |-> mine[i].id]

\* the last Min(k, n) elements of s, last first
NewestFirst(s, k) == [i \in 1..Min(k, Len(s)) |-> s[Len(s) + 1 - i]]

\* C7 as claimed: GET /api/activities?limit=k with k > 0 answers with the
\* min(k, n) activities of the caller that were created last, newest first.
C7_AsClaimed ==
  \A tk \in tokens : \A k \in 1..MaxCalls :
    \A r \in listActivities(storage, Bearer(tk), Digits(k)) :
      /\ r.status = 200
      /\ [i \in DOMAIN r.body |-> r.body[i].id]
           = NewestFirst(ActivityIdsOf(tk.id), k)

\* `out` is what a limit allows of the complete result `full`
Truncated(out, full, limit) ==
  IF limit.kind = "number" /\ limit.n > 0
    THEN /\ out = SubSeq(full, 1, Min(limit.n, Len(full)))
         /\ Len(out) = Min(limit.n, Len(full))
    ELSE out = full

\* C8: getActivitiesForUser and getBlogArticles return the first `limit`
\* elements of the sorted result when limit is a number greater than 0, and
\* the whole sorted result when limit is absent, 0 or negative.
C8_LimitTruncates ==
  /\ \A u \in UserIds : \A limit \in Limits :
       \A out \in getActivitiesForUser(storage, u, limit) :
         \E full \in getActivitiesForUser(storage, u, NoNumber) :
           /\ Truncated(out, full, limit)
           /\ Len(full) = Len(ActivityIdsOf(u))
  /\ \A limit \in Limits :
       \A out \in getBlogArticles(storage, limit) :
         \E full \in getBlogArticles(storage, NoNumber) :
           /\ Truncated(out, full, limit)
           /\ Len(full) = Len(storage.blogArticles)

\* a user has more activities than a positive limit, and a limit of 0 is set
C8_Witness ==
  \E u \in UserIds :
    /\ Len(ActivityIdsOf(u)) >= 2
    /\ \E out \in getActivitiesForUser(storage, u, Num(1)) : Len(out) = 1
    /\ \E out \in getActivitiesForUser(storage, u, Num(0)) : Len(out) >= 2
    /\ \E out \in getBlogArticles(storage, Num(2)) : Len(out) = 2

Contains(description, piece) == \E i \in DOMAIN description : description[i] = piece

\* C9: createDietPlan for a client of the store adds one activity of type
\* diet_plan with the plan's userId and clientId, and its description holds
\* the client's fullName and the plan's name.
C9_DietPlanActivity ==
  \A dietPlanData \in InsertDietPlans :
    LET client == getClient(storage, dietPlanData.clientId)
        after == createDietPlan(storage, dietPlanData, now).store.activities
    IN  client # Undefined =>
          /\ Len(after) = Len(storage.activities) + 1
          /\ SubSeq(after, 1, Len(storage.activities)) = storage.activities
          /\ LET activity == after[Len(after)].v
             IN  /\ activity.type = "diet_plan"
                 /\ activity.userId = dietPlanData.userId
                 /\ activity.clientId = dietPlanData.clientId
                 /\ Contains(activity.description, client[1].fullName)
                 /\ Contains(activity.description, dietPlanData.name)

\* a diet plan of the store whose activity names its client
C9_Witness ==
  \E i \in DOMAIN storage.dietPlans : \E j \in DOMAIN storage.activities :
    LET dietPlan == storage.dietPlans[i].v
        activity == storage.activities[j].v
        client == getClient(storage, dietPlan.clientId)
    IN  /\ client # Undefined
        /\ activity.type = "diet_plan"
        /\ activity.clientId = dietPlan.clientId
        /\ Contains(activity.description, client[1].fullName)
        /\ Contains(activity.description, dietPlan.name)

\* the activities the four creating operations add, told from those that
\* createActivity is called with directly
Recorded ==
  {i \in DOMAIN storage.activities :
     storage.activities[i].v.type
       \in {"client", "measurement", "diet_plan", "appointment"}}

\* C10 as claimed: each createClient, createMeasurement, createDietPlan and
\* createAppointment adds exactly one activity, so that there are as many
\* recorded activities as creations of these four kinds.
C10_AsClaimed ==
  Cardinality(Recorded)
    = Len(issued.client) + Len(issued.measurement)
        + Len(issued.dietPlan) + Len(issued.appointment)

\* the client an insert names is not in the store
Dangling(data) == getClient(storage, data.clientId) = Undefined

\* the create r stored what it returns and recorded one activity whose
\* description carries the placeholder name
StoredWithPlaceholder(after, r) ==
  /\ MapGet(after, r.result.id) = <<r.result>>
  /\ Len(r.store.activities) = Len(storage.activities) + 1
  /\ Contains(r.store.activities[Len(r.store.activities)].v.description,
              "Bilinmeyen Danisan")

\* C11 as claimed: createMeasurement, createDietPlan and createAppointment
\* called with a clientId that is not in the store still store and return the
\* entity, and record an activity that carries a placeholder client name.
C11_AsClaimed ==
  /\ \A d \in InsertDietPlans : Dangling(d) =>
       LET r == createDietPlan(storage, d, now)
       IN  StoredWithPlaceholder(r.store.dietPlans, r)
  /\ \A d \in InsertAppointments : Dangling(d) =>
       LET r == createAppointment(storage, d, now)
       IN  StoredWithPlaceholder(r.store.appointments, r)
  /\ \A d \in InsertMeasurements : Dangling(d) =>
       LET r == createMeasurement(storage, d, now)
       IN  StoredWithPlaceholder(r.store.measurements, r)

WellFormedLogin(body) == Parse(loginSchema, body) # <<>>

UnknownUsername(body) ==
  WellFormedLogin(body) /\ getUserByUsername(storage, body.username) = Undefined

WrongPassword(body) ==
  /\ WellFormedLogin(body)
  /\ LET user == getUserByUsername(storage, body.username)
     IN  user # Undefined /\ ~BcryptCompare(body.password, user[1].password)

\* C12: a login with an unknown username and a login with a known username
\* and a wrong password get the same answer: 401, the same message, no token;
\* the store is unchanged by both.
C12_LoginDoesNotTellUsernames ==
  \A unknown, wrong \in LoginBodies :
    (UnknownUsername(unknown) /\ WrongPassword(wrong)) =>
      \A r1 \in login(storage, unknown) : \A r2 \in login(storage, wrong) :
        /\ r1.status = 401 /\ r2.status = 401
        /\ r1.body = r2.body
        /\ OnlyMessage(r1)
        /\ r1.store = storage /\ r2.store = storage

C12_Witness ==
  /\ Len(storage.users) = 1
  /\ \E unknown, wrong \in LoginBodies :
       /\ UnknownUsername(unknown) /\ WrongPassword(wrong)
       /\ \E r \in login(storage, wrong) : r.status = 401

\* a response body without a password, at the top or in its user
NoPassword(body) ==
  /\ "password" \notin DOMAIN body
  /\ "user" \in DOMAIN body => "password" \notin DOMAIN body.user

\* C13: no stored user's password is the raw password it was registered
\* with, and no response of register, login or me holds a password field.
C13_PasswordNeverStoredOrSent ==
  /\ \A i \in DOMAIN storage.users : \A d \in InsertUsers :
       d.username = storage.users[i].v.username =>
         storage.users[i].v.password # d.password
  /\ \A body \in RegisterBodies :
       LET early == registerCheck(storage, body)
       IN  IF early # <<>> THEN NoPassword(early[1].body)
           ELSE NoPassword(registerComplete(storage,
                             Parse(insertUserSchema, body)[1], now).body)
  /\ \A i \in DOMAIN pending :
       NoPassword(registerComplete(storage, pending[i], now).body)
  /\ \A body \in LoginBodies : \A r \in login(storage, body) : NoPassword(r.body)
  /\ \A auth \in Auths : \A r \in me(storage, auth) : NoPassword(r.body)

\* a registered user logs in and asks for its own record
C13_Witness ==
  /\ \E body \in LoginBodies : \E r \in login(storage, body) :
       r.status = 200 /\ r.body.user.username = body.username
  /\ \E tk \in tokens : \E r \in me(storage, Bearer(tk)) : r.status = 200

\* the call r gave the absence signal and left the whole store as it is
Absent(r, signal) == r.result = signal /\ r.store = storage

\* C14: get, update and delete with an id that is not in the store return
\* undefined (get, update) or false (delete) and leave every map, every id
\* counter and the activity log as they are.
C14_AbsentIdIsNoOp ==
  /\ \A id \in UserIds : ~MapHas(storage.users, id) =>
       getUser(storage, id) = Undefined
  /\ \A id \in ArticleIds : ~MapHas(storage.blogArticles, id) =>
       getBlogArticle(storage, id) = Undefined
  /\ \A id \in ClientIds : ~MapHas(storage.clients, id) =>
       /\ getClient(storage, id) = Undefined
       /\ \A d \in ClientPatches : Absent(updateClient(storage, id, d), Undefined)
       /\ Absent(deleteClient(storage, id), FALSE)
  /\ \A id \in EntityIds : ~MapHas(storage.measurements, id) =>
       /\ getMeasurement(storage, id) = Undefined
       /\ \A d \in MeasurementPatches :
            Absent(updateMeasurement(storage, id, d), Undefined)
       /\ Absent(deleteMeasurement(storage, id), FALSE)
  /\ \A id \in EntityIds : ~MapHas(storage.dietPlans, id) =>
       /\ getDietPlan(storage, id) = Undefined
       /\ \A d \in DietPlanPatches :
            Absent(updateDietPlan(storage, id, d), Undefined)
       /\ Absent(deleteDietPlan(storage, id), FALSE)
  /\ \A id \in EntityIds : ~MapHas(storage.appointments, id) =>
       /\ getAppointment(storage, id) = Undefined
       /\ \A d \in AppointmentPatches :
            Absent(updateAppointment(storage, id, d), Undefined)
       /\ Absent(deleteAppointment(storage, id), FALSE)

\* a diet plan was deleted, so its id is not in the store any more, while
\* other entities are
C14_Witness ==
  /\ Len(issued.dietPlan) >= 1
  /\ ~MapHas(storage.dietPlans, issued.dietPlan[1])
  /\ Len(storage.activities) >= 1
  /\ \E d \in DietPlanPatches :
       updateDietPlan(storage, issued.dietPlan[1], d).result = Undefined

\* map m2 is map m with the fields of patch merged into the entry of id:
\* the same keys in the same order, every other entry as it was
MergedInto(m, m2, id, patch) ==
  /\ Len(m2) = Len(m)
  /\ \A i \in DOMAIN m :
       /\ m2[i].k = m[i].k
       /\ IF m[i].k = id
            THEN /\ DOMAIN m2[i].v = (DOMAIN m[i].v) \cup (DOMAIN patch)
                 /\ \A f \in DOMAIN m2[i].v :
                      m2[i].v[f] = IF f \in DOMAIN patch THEN patch[f]
                                   ELSE m[i].v[f]
            ELSE m2[i] = m[i]

\* the update r returned the entity it stored under id
ReturnsStored(r, m2, id) == r.result # Undefined /\ r.result = MapGet(m2, id)

\* C15: an update of an entity in the store changes the fields named in the
\* patch on that entity and nothing else: no other field, no other entity of
\* any type, no id counter, and no activity is added.
C15_UpdateFrame ==
  /\ \A id \in ClientIds, d \in ClientPatches : MapHas(storage.clients, id) =>
       LET r == updateClient(storage, id, d)
       IN  /\ MergedInto(storage.clients, r.store.clients, id, d)
           /\ r.store = [storage EXCEPT !.clients = r.store.clients]
           /\ ReturnsStored(r, r.store.clients, id)
  /\ \A id \in EntityIds, d \in MeasurementPatches :
       MapHas(storage.measurements, id) =>
         LET r == updateMeasurement(storage, id, d)
         IN  /\ MergedInto(storage.measurements, r.store.measurements, id, d)
             /\ r.store = [storage EXCEPT !.measurements = r.store.measurements]
             /\ ReturnsStored(r, r.store.measurements, id)
  /\ \A id \in EntityIds, d \in DietPlanPatches :
       MapHas(storage.dietPlans, id) =>
         LET r == updateDietPlan(storage, id, d)
         IN  /\ MergedInto(storage.dietPlans, r.store.dietPlans, id, d)
             /\ r.store = [storage EXCEPT !.dietPlans = r.store.dietPlans]
             /\ ReturnsStored(r, r.store.dietPlans, id)
  /\ \A id \in EntityIds, d \in AppointmentPatches :
       MapHas(storage.appointments, id) =>
         LET r == updateAppointment(storage, id, d)
         IN  /\ MergedInto(storage.appointments, r.store.appointments, id, d)
             /\ r.store = [storage EXCEPT !.appointments = r.store.appointments]
             /\ ReturnsStored(r, r.store.appointments, id)

\* a measurement was updated (only a patch sets the weight 68) next to
\* another measurement, and still names its client
C15_Witness ==
  /\ Len(storage.measurements) >= 2
  /\ \E i \in DOMAIN storage.measurements :
       /\ storage.measurements[i].v.weight = 68
       /\ "clientId" \in DOMAIN storage.measurements[i].v

\* C16: deleteClient(id) removes the client with that id and nothing else:
\* the other clients, the measurements, diet plans, appointments and
\* activities that name the client, and all id counters stay as they are.
C16_DeleteClientFrame ==
  \A id \in ClientIds :
    LET r == deleteClient(storage, id)
    IN  /\ r.result = MapHas(storage.clients, id)
        /\ ~MapHas(r.store.clients, id)
        /\ r.store.clients = SelectSeq(storage.clients, LAMBDA e : e.k # id)
        /\ r.store = [storage EXCEPT !.clients = r.store.clients]

\* a client was deleted; a measurement and an activity that name it remain
C16_Witness ==
  \E c \in Range(issued.client) :
    /\ ~MapHas(storage.clients, c)
    /\ \E i \in DOMAIN storage.measurements : storage.measurements[i].v.clientId = c
    /\ \E i \in DOMAIN storage.activities :
         /\ storage.activities[i].v.clientId = c
         /\ storage.activities[i].v.type = "measurement"

\* the stored clients, diet plans and appointments with a given owner field,
\* in the order of their creation
ClientsOfUser(u) == SelectSeq(MapValues(storage.clients), LAMBDA c : c.userId = u)
DietPlansOfUser(u) ==
  SelectSeq(MapValues(storage.dietPlans), LAMBDA d : d.userId = u)
DietPlansOfClient(c) ==
  SelectSeq(MapValues(storage.dietPlans), LAMBDA d : d.clientId = c)
AppointmentsOfUser(u) ==
  SelectSeq(MapValues(storage.appointments), LAMBDA a : a.userId = u)
AppointmentsOfClient(c) ==
  SelectSeq(MapValues(storage.appointments), LAMBDA a : a.clientId = c)

\* C17 as claimed: the five listings return the stored entities whose owner
\* field is the argument, in the order of their creation.
C17_AsClaimed ==
  /\ \A u \in UserIds :
       /\ getClientsForUser(storage, u) = ClientsOfUser(u)
       /\ getDietPlansForUser(storage, u) = DietPlansOfUser(u)
       /\ \A out \in getAppointmentsForUser(storage, u) :
            out = AppointmentsOfUser(u)
  /\ \A c \in ClientIds :
       /\ \A out \in getDietPlansForClient(storage, c) : out = DietPlansOfClient(c)
       /\ \A out \in getAppointmentsForClient(storage, c) :
            out = AppointmentsOfClient(c)

\* out holds the elements of base, each once, ordered by fld (descending when
\* desc, else ascending), elements with equal fld in the order of base
OrderedBy(out, base, fld, desc) ==
  \E p \in Perms(Len(base)) :
    /\ out = [i \in DOMAIN base |-> base[p[i]]]
    /\ \A i, j \in DOMAIN base :
         i < j =>
           LET a == base[p[i]][fld]
               b == base[p[j]][fld]
           IN  (IF desc THEN a > b ELSE a < b) \/ (a = b /\ p[i] < p[j])

\* C17, amended: getClientsForUser and getDietPlansForUser return the
\* matching entities in the order of their creation; getDietPlansForClient
\* returns them by createdAt, newest first; getAppointmentsForUser and
\* getAppointmentsForClient return them by date, earliest first; entities
\* with equal createdAt or date come in the order of their creation.
C17_ListingOrder ==
  /\ \A u \in UserIds :
       /\ getClientsForUser(storage, u) = ClientsOfUser(u)
       /\ getDietPlansForUser(storage, u) = DietPlansOfUser(u)
       /\ \A out \in getAppointmentsForUser(storage, u) :
            OrderedBy(out, AppointmentsOfUser(u), "date", FALSE)
  /\ \A c \in ClientIds :
       /\ \A out \in getDietPlansForClient(storage, c) :
            OrderedBy(out, DietPlansOfClient(c), "createdAt", TRUE)
       /\ \A out \in getAppointmentsForClient(storage, c) :
            OrderedBy(out, AppointmentsOfClient(c), "date", FALSE)

\* a user has an appointment that was created before another one with an
\* earlier date, next to an appointment with the same date
C17_Witness ==
  \E u \in UserIds :
    LET base == AppointmentsOfUser(u)
    IN  /\ Len(base) = 3
        /\ base[1].date > base[2].date
        /\ base[1].date = base[3].date
        /\ \E out \in getAppointmentsForUser(storage, u) : out[1] = base[2]

\* requests without a usable token: no Authorization header, a header that
\* is not a Bearer header, a token signed with another key
Unauthenticated ==
  {[kind |-> "none"], [kind |-> "basic"]}
    \cup {Bearer(tk) : tk \in ForgedTokens}

\* every response of the set is a 401 that leaves the store alone
AllRefused401(responses) == \A r \in responses : Refused(r, 401)

\* C18: every route but register, login and the blog routes answers 401 to a
\* request without an Authorization header, with a header that is not a
\* Bearer header, or with a token that fails verification, and the store is
\* unchanged.
C18_UnauthenticatedRefused ==
  \A auth \in Unauthenticated :
    /\ AllRefused401(me(storage, auth))
    /\ AllRefused401(listClients(storage, auth))
    /\ AllRefused401(listDietPlans(storage, auth))
    /\ AllRefused401(listAppointments(storage, auth))
    /\ AllRefused401(dashboardStats(storage, auth, now))
    /\ \A q \in LimitQueries : AllRefused401(listActivities(storage, auth, q))
    /\ \A body \in PostClientBodies :
         AllRefused401(postClient(storage, auth, body, now))
    /\ \A body \in PostAppointmentBodies :
         AllRefused401(postAppointment(storage, auth, body, now))
    /\ \A id \in ClientIdParams :
         /\ AllRefused401(readClient(storage, auth, id))
         /\ AllRefused401(removeClient(storage, auth, id))
         /\ AllRefused401(listMeasurements(storage, auth, id))
         /\ AllRefused401(listClientDietPlans(storage, auth, id))
         /\ AllRefused401(listClientAppointments(storage, auth, id))
         /\ \A body \in PutClientBodies :
              AllRefused401(putClient(storage, auth, id, body))
         /\ \A body \in PostMeasurementBodies :
              AllRefused401(postMeasurement(storage, auth, id, body, now))
         /\ \A body \in PostDietPlanBodies :
              AllRefused401(postDietPlan(storage, auth, id, body, now))
    /\ \A id \in EntityIdParams :
         /\ \A body \in PutDietPlanBodies :
              AllRefused401(putDietPlan(storage, auth, id, body))
         /\ \A body \in PutAppointmentBodies :
              AllRefused401(putAppointment(storage, auth, id, body))

\* a forged token names a user of the store who has a client, and the
\* request for that client is refused
C18_Witness ==
  \E tk \in ForgedTokens :
    /\ MapHas(storage.users, tk.id)
    /\ \E i \in DOMAIN storage.clients :
         /\ storage.clients[i].v.userId = tk.id
         /\ \E r \in readClient(storage, Bearer(tk), Digits(storage.clients[i].k)) :
              r.status = 401

\* every response of the set is a 400 that leaves the store alone
AllRefused400(responses) == \A r \in responses : Refused(r, 400)

\* the entries of a map that `who` owns
OwnEntries(m, who) == {i \in DOMAIN m : m[i].v.userId = who}

\* C19 as claimed: on the caller's own resources, every POST and PUT on
\* clients, diet plans and appointments, and POST /api/auth/register,
\* answers 400 to a body that does not satisfy the schema, and the store is
\* unchanged.
C19_AsClaimed ==
  /\ \A body \in RegisterBodies : Parse(insertUserSchema, body) = <<>> =>
       LET early == registerCheck(storage, body)
       IN  early # <<>> /\ Refused(early[1], 400)
  /\ \A tk \in tokens :
       LET auth == Bearer(tk)
           mine == [userId |-> tk.id]
       IN  /\ \A body \in PostClientBodies :
                Parse(insertClientSchema, Spread(body, mine)) = <<>> =>
                  AllRefused400(postClient(storage, auth, body, now))
           /\ \A body \in PostAppointmentBodies :
                Parse(insertAppointmentSchema, Spread(body, mine)) = <<>> =>
                  AllRefused400(postAppointment(storage, auth, body, now))
           /\ \A i \in OwnEntries(storage.clients, tk.id) :
                LET id == storage.clients[i].k
                IN  /\ \A body \in PostDietPlanBodies :
                         Parse(insertDietPlanSchema,
                               Spread(body, Spread(mine, [clientId |-> id])))
                           = <<>> =>
                           AllRefused400(postDietPlan(storage, auth, Digits(id),
                                                      body, now))
                    /\ \A body \in IllTypedClientBodies :
                         AllRefused400(putClient(storage, auth, Digits(id), body))
           /\ \A i \in OwnEntries(storage.dietPlans, tk.id) :
                \A body \in IllTypedDietPlanBodies :
                  AllRefused400(putDietPlan(storage, auth,
                                            Digits(storage.dietPlans[i].k), body))
           /\ \A i \in OwnEntries(storage.appointments, tk.id) :
                \A body \in IllTypedAppointmentBodies :
                  AllRefused400(putAppointment(storage, auth,
                                               Digits(storage.appointments[i].k),
                                               body))

\* the number of maps among clients, measurements, diet plans and
\* appointments that hold a key in st2 which they did not hold in st
NewKeys(m, m2) == {m2[i].k : i \in DOMAIN m2} \ {m[i].k : i \in DOMAIN m}

CreatedIn(st, st2) ==
  [client |-> NewKeys(st.clients, st2.clients),
   measurement |-> NewKeys(st.measurements, st2.measurements),
   diet_plan |-> NewKeys(st.dietPlans, st2.dietPlans),
   appointment |-> NewKeys(st.appointments, st2.appointments)]

\* from store st to store st2 the activity log only grew, by at most one
\* activity, and that one comes with an entity of its type created in the
\* same step, the only entity created in it
ActivityLogStep(st, st2) ==
  LET a == st.activities
      a2 == st2.activities
      created == CreatedIn(st, st2)
  IN  /\ Len(a2) \in {Len(a), Len(a) + 1}
      /\ SubSeq(a2, 1, Len(a)) = a
      /\ Len(a2) = Len(a) + 1 =>
           LET activity == a2[Len(a2)].v
           IN  /\ activity.type \in DOMAIN created
               /\ \A type \in DOMAIN created :
                    Cardinality(created[type])
                      = IF type = activity.type THEN 1 ELSE 0

\* C20: over any sequence of requests a recorded activity is never changed
\* or removed, and an activity is added only together with the creation of a
\* client, measurement, diet plan or appointment.
C20_ActivitiesAppendOnly == [][ActivityLogStep(storage, storage')]_vars

\* the activity of a client's creation is in the log after the client was
\* updated by a PUT, or deleted
C20_Witness ==
  \E i \in DOMAIN storage.activities :
    LET activity == storage.activities[i].v
        client == getClient(storage, activity.clientId)
    IN  /\ activity.type = "client"
        /\ \/ client = Undefined
           \/ /\ "isActive" \in DOMAIN client[1]
              /\ client[1].isActive = FALSE

\* C21: overlapping requests leave the store that some one-at-a-time order
\* of them leaves; when two registrations of one username overlap, each
\* suspended at the awaited hash between its username check and its insert,
\* at most one creates a user: no two stored users share a username.
C21_AsClaimed ==
  \A i, j \in DOMAIN storage.users :
    storage.users[i].v.username = storage.users[j].v.username => i = j

\* the day a time falls on
DayOf(t) == t \div TicksPerDay

HasValue(entity, fld, value) == fld \in DOMAIN entity /\ entity[fld] = value

\* the create r stored its entity with the schema's default for a field the
\* insert data did not name
StoredWithDefault(after, r, data, fld, value) ==
  fld \notin DOMAIN data =>
    /\ HasValue(r.result, fld, value)
    /\ MapGet(after, r.result.id) = <<r.result>>

\* C23 as claimed: an entity created without a value for a field that the
\* schema declares with a default is stored with the default: a client and a
\* diet plan with isActive true, an appointment with status 'scheduled', a
\* measurement with date equal to its creation time.
C23_AsClaimed ==
  /\ \A d \in InsertClients :
       LET r == createClient(storage, d, now)
       IN  StoredWithDefault(r.store.clients, r, d, "isActive", TRUE)
  /\ \A d \in InsertDietPlans :
       LET r == createDietPlan(storage, d, now)
       IN  StoredWithDefault(r.store.dietPlans, r, d, "isActive", TRUE)
  /\ \A d \in InsertAppointments :
       LET r == createAppointment(storage, d, now)
       IN  StoredWithDefault(r.store.appointments, r, d, "status", "scheduled")
  /\ \A d \in InsertMeasurements :
       LET r == createMeasurement(storage, d, now)
       IN  StoredWithDefault(r.store.measurements, r, d, "date", now)

\* every entity of the map carries the key it is stored under as its id
KeyedById(m) == \A i \in DOMAIN m : m[i].v.id = m[i].k

\* C24 as claimed: after any sequence of requests, PUT requests whose body
\* names id or createdAt among them, every entity stored under key k has
\* id = k (and id and createdAt never change after the creation).
C24_AsClaimed ==
  /\ KeyedById(storage.users)
  /\ KeyedById(storage.clients)
  /\ KeyedById(storage.measurements)
  /\ KeyedById(storage.dietPlans)
  /\ KeyedById(storage.appointments)
  /\ KeyedById(storage.activities)

\* the entity names, through clientId, a client of the store owned by `who`
ReferencesOwnClient(entity, who) ==
  LET client == getClient(storage, entity.clientId)
  IN  client # Undefined /\ client[1].userId = who

\* C25 as claimed: after any sequence of requests, every diet plan that
\* GET /api/diet-plans and every appointment that GET /api/appointments
\* returns to a user references a client that is in the store and is owned
\* by that user.
C25_AsClaimed ==
  \A tk \in tokens :
    /\ \A r \in listDietPlans(storage, Bearer(tk)) :
         r.status = 200 =>
           \A i \in DOMAIN r.body : ReferencesOwnClient(r.body[i], tk.id)
    /\ \A r \in listAppointments(storage, Bearer(tk)) :
         r.status = 200 =>
           \A i \in DOMAIN r.body : ReferencesOwnClient(r.body[i], tk.id)

\* what a response shows to its receiver
Shown(rs) == {[status |-> r.status, body |-> r.body] : r \in rs}

\* the answers the user of token tk gets from the store st to the five GETs
ViewOf(st, tk) ==
  [clients |-> Shown(listClients(st, Bearer(tk))),
   dietPlans |-> Shown(listDietPlans(st, Bearer(tk))),
   appointments |-> Shown(listAppointments(st, Bearer(tk))),
   activities |-> [q \in LimitQueries |-> Shown(listActivities(st, Bearer(tk), q))],
   stats |-> Shown(dashboardStats(st, Bearer(tk), now))]

\* the answers a user with token tk can get to a request that writes
WritingRequests(tk) ==
  UNION ({postClient(storage, Bearer(tk), body, now) : body \in PostClientBodies}
   \cup {putClient(storage, Bearer(tk), id, body) :
           id \in ClientIdParams, body \in PutClientBodies}
   \cup {removeClient(storage, Bearer(tk), id) : id \in ClientIdParams}
   \cup {postMeasurement(storage, Bearer(tk), id, body, now) :
           id \in ClientIdParams, body \in PostMeasurementBodies}
   \cup {postDietPlan(storage, Bearer(tk), id, body, now) :
           id \in ClientIdParams, body \in PostDietPlanBodies}
   \cup {putDietPlan(storage, Bearer(tk), id, body) :
           id \in EntityIdParams, body \in PutDietPlanBodies}
   \cup {postAppointment(storage, Bearer(tk), body, now) :
           body \in PostAppointmentBodies}
   \cup {putAppointment(storage, Bearer(tk), id, body) :
           id \in EntityIdParams, body \in PutAppointmentBodies})

\* C26 as claimed: for two distinct users A and B, no request authenticated
\* as A changes the responses B gets from GET /api/clients, /api/diet-plans,
\* /api/appointments, /api/activities and /api/dashboard/stats.
C26_AsClaimed ==
  \A tkA, tkB \in tokens :
    tkA.id # tkB.id =>
      \A r \in WritingRequests(tkA) : ViewOf(r.store, tkB) = ViewOf(storage, tkB)

\* client c was created and DELETE /api/clients/c has removed it
Gone(st, created, c) == c \in Range(created) /\ ~MapHas(st.clients, c)

\* every answer of the set is 404 with a message only, the store as it is
AllRefused404(rs) == \A r \in rs : Refused(r, 404)

\* every request of a user to /api/clients/c and to its measurements, diet
\* plans and appointments is answered 404
NotFoundForAll(c) ==
  \A tk \in tokens :
    LET auth == Bearer(tk)
        id == Digits(c)
    IN  /\ AllRefused404(readClient(storage, auth, id))
        /\ \A body \in PutClientBodies :
             AllRefused404(putClient(storage, auth, id, body))
        /\ AllRefused404(removeClient(storage, auth, id))
        /\ AllRefused404(listMeasurements(storage, auth, id))
        /\ \A body \in PostMeasurementBodies :
             AllRefused404(postMeasurement(storage, auth, id, body, now))
        /\ AllRefused404(listClientDietPlans(storage, auth, id))
        /\ \A body \in PostDietPlanBodies :
             AllRefused404(postDietPlan(storage, auth, id, body, now))
        /\ AllRefused404(listClientAppointments(storage, auth, id))

\* C27: once DELETE /api/clients/c has succeeded, the client stays out of
\* the store whatever is created afterwards, and every later request of any
\* user to /api/clients/c or to its measurements, diet plans or appointments
\* is answered 404, so the measurements left behind are never returned.
C27_DeletedClientStays404 ==
  /\ [](\A c \in Range(issued.client) :
          Gone(storage, issued.client, c) => NotFoundForAll(c))
  /\ [][\A c \in Range(issued.client) :
          Gone(storage, issued.client, c) => Gone(storage', issued'.client, c)]_vars

\* a deleted client whose measurement is still in the store
C27_Witness ==
  \E c \in Range(issued.client) :
    /\ Gone(storage, issued.client, c)
    /\ tokens # {}
    /\ \E i \in DOMAIN storage.measurements :
         storage.measurements[i].v.clientId = c

\* C28 as claimed: over register, login and restart steps, a token that
\* authenticate accepts gives access only to the account it was issued to:
\* the user found by getUser(token.id) is absent or has the username
\* recorded in the token.
C28_AsClaimed ==
  \A tk \in tokens :
    authenticate(Bearer(tk)) # <<>> =>
      LET user == getUser(storage, tk.id)
      IN  user = Undefined \/ user[1].username = tk.username

\* C29 as claimed: in the browser's AuthProvider, under any interleaving of
\* the initial fetchUser, login, register and logout, the user is non-null
\* only while a token is stored in localStorage.
C29_AsClaimed == authProvider.user # <<>> => authProvider.localStorage # <<>>

\* the whole seconds between the date and the clock
ElapsedSeconds == (since.clock - since.date) \div TicksPerSecond

\* the units of the text, in seconds
UnitSeconds ==
  [u \in {" dakika once", " saat once", " gun once", " hafta once",
          " ay once", " yil once"} |->
     CASE u = " dakika once" -> 60
       [] u = " saat once" -> 60 * 60
       [] u = " gun once" -> 24 * 60 * 60
       [] u = " hafta once" -> 7 * 24 * 60 * 60
       [] u = " ay once" -> 30 * 24 * 60 * 60
       [] u = " yil once" -> 365 * 24 * 60 * 60]

\* C30 as claimed: getTimeSince never reports a zero count: for an elapsed
\* time of at least 60 seconds the number in the text is at least 1, and the
\* unit is the largest of minute, hour, day, week, month (30 days) and year
\* (365 days) that fits the elapsed time.
C30_AsClaimed ==
  (since.text # <<>> /\ ElapsedSeconds >= 60) =>
    LET text == since.text[1]
    IN  /\ Len(text) = 2
        /\ text[1] >= 1
        /\ UnitSeconds[text[2]] <= ElapsedSeconds
        /\ \A u \in DOMAIN UnitSeconds :
             UnitSeconds[u] <= ElapsedSeconds => UnitSeconds[u] <= UnitSeconds[text[2]]

=============================================================================
